---- MODULE Spec2Model ----
(***************************************************************************)
(* A model of the Palworld REST API client (GoodLifeRoleplay/Pal): the     *)
(* React dashboard (src/src/components/Dashboard.tsx), the base-URL        *)
(* normaliser (../lib/url) and the restart-times parser.                   *)
(*                                                                         *)
(* Strings are sequences of one-character strings, so that trimming,       *)
(* splitting, regular-expression tests and URL parsing are computed on     *)
(* the characters as the code computes them.                               *)
(***************************************************************************)
EXTENDS Integers, Sequences, FiniteSets, TLC

VARIABLES
    rtItems,     \* the entries the user typed into "Restart times"
    rtInput,     \* restartTimesText: the entries joined with ","
    rtResult,    \* what parseRestartTimes returned, or PendingList
    urlParts,    \* the pieces of the base URL the user typed
    urlInput,    \* the base URL text: the pieces concatenated
    urlResult,   \* normalizeBaseUrl(urlInput): a string, Failure or Pending
    urlAgain,    \* normalizeBaseUrl(urlResult), or Pending
    \* the dashboard (Dashboard.tsx lines 514-1124)
    loaded,            \* the mount effect has read get_config
    allowActions,      \* the "Allow actions" flag
    settingsOpen,      \* the Settings modal is shown
    backupsOpen,       \* the Backups modal is shown
    broadcastOpen,     \* the Broadcast modal is shown
    broadcastMsg,      \* the text typed into the Broadcast modal
    timeModal,         \* the Restart/Shutdown modal: kind and seconds
    players,           \* the ids of the players listed
    restartCountdown,  \* the "Restart in Ns" chip, NoCountdown when null
    restartReply,      \* the answer to restart_now the handler still awaits
    cancelReply,       \* the answer to cancel_restart the handler still awaits
    lastInvoke,        \* the kind of the last command invoked, and the flag then
    \* the backend's pending restart (src-tauri, not among the sources)
    bePending,         \* the ScheduledAction: active, id, remaining seconds
    beNextId,          \* restarts requested so far
    beWarned,          \* ids whose warning broadcast was issued
    beShutdown,        \* ids whose shutdown call was dispatched
    beLaunched,        \* ids after whose shutdown the start command was launched
    canceledIds,       \* history: ids pending when Cancel Restart was pressed
    lateCancel,        \* history: what a cancel with nothing pending did
    \* the Auto-Restart panel (Dashboard.tsx lines 130-139, 1876-1891) and the
    \* backend's Scheduler (src-tauri, not among the sources)
    autoSent,          \* start/stop requests issued so far
    autoCalls,         \* the tInvoke calls not yet logged: id, cmd, state
    autoLog,           \* the last line pushLog wrote for the panel
    schedState,        \* the Scheduler: "Stopped" or "Running"
    timerLoops,        \* the timer loops alive: kind, gen, busy, canceled, failed
    \* the settings (Dashboard.tsx lines 514-690, 925-1120)
    diskCfg,           \* the record get_config answers with
    mountPc,           \* where the mount effect stands
    cfg,               \* the cfg state
    restartTimesText,  \* the "Restart times" input
    startCmd,          \* the "Start command" input
    backupDir,         \* the "Backup source folder" input
    backupDestDir,     \* the "Backup destination folder" input
    typed,             \* history: edits typed and Apply clicks so far
    pendingApply,      \* the applySettings call awaiting set_config
    lastPayload,       \* the payload of the last set_config invoked
    observed,          \* history: the settings shown when the last update completed
    lastAppliedRef,    \* lastAppliedRef.current: the last applied snapshot
    \* the polling dashboard (Dashboard.tsx lines 34-240)
    pollPc,            \* the poll effect: "unmounted", "mounted" or "cleaned"
    stop,              \* the effect's stop flag
    pollCount,         \* calls of refresh so far
    pollRuns,          \* the calls of refresh in flight: id, pc, info
    server,            \* the server state: the refresh that wrote it
    polled,            \* the players and durations states: the refresh that wrote them
    \* the Backup Engine (src-tauri, not among the sources) and its caller
    today,             \* the clock, in days
    sourceExists,      \* the source directory of the backup exists
    destArchives,      \* the archives in the destination: name, created, locked
    bkCount,           \* backup_now calls invoked so far
    bkCalls,           \* the backup_now calls not yet logged
    bkLog,             \* the last line the Backup Now handler logged
    \* the HTTP helpers (src/unnamed/part_004)
    gwOp,              \* the helper called
    gwPassword,        \* the password argument: "latin1", or "wide" (a character above U+00FF)
    gwFetch,           \* what fetch does with the request
    gwResult,          \* what the helper did: returned a value, or raised
    \* refreshAll and the periodic refresh (Dashboard.tsx lines 597-609, 705-755)
    now,               \* Date.now(), in units of 30 seconds
    refreshHoldUntil,  \* the refreshHoldUntil state
    lastTick,          \* when the interval last fired or was set up
    refreshCount,      \* calls of refreshAll that went past its guards
    refreshRuns,       \* the calls of refreshAll in flight: id, pc
    issued,            \* history: the last server read invoked
    prevPlayersRef,    \* prevPlayersRef.current: the ids remembered
    playerLog,         \* the "Player joined" / "Player left" lines of the last answer
    \* Force Save (Dashboard.tsx lines 770-782 and 1843-1857)
    saveVersion,       \* which of the two dashboards is shown
    saving,            \* the saving state
    saveCount,         \* force_save invocations so far
    saveFlight,        \* force_save invocations not yet settled
    saveTimers,        \* setTimeout(() => setSaving(false), 8000) not yet fired
    saveLog,           \* the last line onSave logged
    \* the pages of the earlier client (save.ts, kick.ts, playerlist.ts,
    \* login.ts, part_005, main.ts) and the backend's stored server info
    pgName,            \* the page loaded
    pgPc,              \* where its script stands
    pgCreds,           \* where serverIp / serverPort / serverPassword came from
    pgCheck,           \* the status checkConnection returned, 0 before
    pgStatus,          \* the status the action's POST returned, 0 before
    pgRead,            \* the status of the last GET answered, 0 before
    pgRequests,        \* history: the REST requests issued
    pgShown,           \* the message the page shows
    pgRedirect,        \* window.location.href = "/login/" was assigned
    pgRaised,          \* the error that left a handler uncaught
    pgRemember,        \* the login page's checkbox
    pgLogins,          \* clicks on the login button so far
    beStored,          \* the server info the backend holds
    beQueue,           \* store_server_info invocations the backend has not handled
    iniFile            \* pal_api_config.ini: "absent", "default" or "custom"

timesVars == <<rtItems, rtInput, rtResult>>
urlVars == <<urlParts, urlInput, urlResult, urlAgain>>
uiVars == <<loaded, allowActions, settingsOpen, backupsOpen, broadcastOpen,
            broadcastMsg, timeModal, players, restartCountdown, restartReply,
            cancelReply, lastInvoke>>
beVars == <<bePending, beNextId, beWarned, beShutdown, beLaunched, canceledIds,
            lateCancel>>
dashVars == <<uiVars, beVars>>

autoVars == <<autoSent, autoCalls, autoLog, schedState, timerLoops>>
cfgVars == <<diskCfg, mountPc, cfg, restartTimesText, startCmd, backupDir,
             backupDestDir, typed, pendingApply, lastPayload, observed,
             lastAppliedRef>>

pollVars == <<pollPc, stop, pollCount, pollRuns, server, polled>>
backupVars == <<today, sourceExists, destArchives, bkCount, bkCalls, bkLog>>
gwVars == <<gwOp, gwPassword, gwFetch, gwResult>>
refreshVars == <<now, refreshHoldUntil, lastTick, refreshCount, refreshRuns, issued,
                 prevPlayersRef, playerLog>>
saveVars == <<saveVersion, saving, saveCount, saveFlight, saveTimers, saveLog>>
pageVars == <<pgName, pgPc, pgCreds, pgCheck, pgStatus, pgRead, pgRequests, pgShown,
              pgRedirect, pgRaised, pgRemember, pgLogins, beStored, beQueue, iniFile>>
lastVars == <<saveVars, pageVars>>
laterVars == <<pollVars, backupVars, gwVars, refreshVars, lastVars>>

vars == <<timesVars, urlVars, dashVars, autoVars, cfgVars, laterVars>>
nonTimesVars == <<urlVars, dashVars, autoVars, cfgVars, laterVars>>
nonUrlVars == <<timesVars, dashVars, autoVars, cfgVars, laterVars>>
nonDashVars == <<timesVars, urlVars, autoVars, cfgVars, laterVars>>
nonAutoVars == <<timesVars, urlVars, dashVars, cfgVars, laterVars>>
nonPollVars == <<timesVars, urlVars, dashVars, autoVars, cfgVars, backupVars, gwVars,
                refreshVars, lastVars>>
nonBackupVars == <<timesVars, urlVars, dashVars, autoVars, cfgVars, pollVars, gwVars,
                  refreshVars, lastVars>>
nonGwVars == <<timesVars, urlVars, dashVars, autoVars, cfgVars, pollVars, backupVars,
              refreshVars, lastVars>>
nonRefreshVars == <<timesVars, urlVars, dashVars, autoVars, cfgVars, pollVars, backupVars,
                   gwVars, lastVars>>
firstVars == <<timesVars, urlVars, dashVars, autoVars, cfgVars, pollVars, backupVars, gwVars,
              refreshVars>>
nonSaveVars == <<firstVars, pageVars>>
nonPageVars == <<firstVars, saveVars>>

\* Markers that are no string of characters: null, a result not yet
\* computed, and a list not yet computed.
Null == <<"null">>
Pending == <<"pending">>
PendingList == <<Pending>>

----------------------------------------------------------------------------
(* Characters and strings *)

Digits == {"0", "1", "2", "3", "4", "5", "6", "7", "8", "9"}

IsDigit(c) == c \in Digits

DigitVal(c) ==
    CASE c = "0" -> 0 [] c = "1" -> 1 [] c = "2" -> 2 [] c = "3" -> 3
      [] c = "4" -> 4 [] c = "5" -> 5 [] c = "6" -> 6 [] c = "7" -> 7
      [] c = "8" -> 8 [] c = "9" -> 9

DigitChar(n) ==
    CASE n = 0 -> "0" [] n = 1 -> "1" [] n = 2 -> "2" [] n = 3 -> "3"
      [] n = 4 -> "4" [] n = 5 -> "5" [] n = 6 -> "6" [] n = 7 -> "7"
      [] n = 8 -> "8" [] n = 9 -> "9"

\* UTF-16 code unit of a character of the model's alphabet (the order
\* Array.prototype.sort and String comparison use).
Code(c) ==
    CASE c = " " -> 32 [] c = "," -> 44 [] c = "/" -> 47
      [] IsDigit(c) -> 48 + DigitVal(c)
      [] c = ":" -> 58 [] c = "?" -> 63
      [] c = "A" -> 65 [] c = "H" -> 72 [] c = "I" -> 73 [] c = "P" -> 80
      [] c = "S" -> 83 [] c = "T" -> 84 [] c = "V" -> 86
      [] c = "a" -> 97 [] c = "h" -> 104 [] c = "i" -> 105 [] c = "p" -> 112
      [] c = "q" -> 113 [] c = "s" -> 115 [] c = "t" -> 116 [] c = "v" -> 118
      [] c = "x" -> 120

Min(a, b) == IF a < b THEN a ELSE b
Max(a, b) == IF a > b THEN a ELSE b

\* String.prototype.trim: the alphabet's only white space is the space.
IsSpace(c) == c = " "

RECURSIVE TrimStart(_)
TrimStart(s) ==
    IF s # <<>> /\ IsSpace(Head(s)) THEN TrimStart(Tail(s)) ELSE s

RECURSIVE TrimEnd(_)
TrimEnd(s) ==
    IF s # <<>> /\ IsSpace(s[Len(s)]) THEN TrimEnd(SubSeq(s, 1, Len(s) - 1)) ELSE s

Trim(s) == TrimEnd(TrimStart(s))

\* String.prototype.split(sep) for a one-character separator: "" splits to [""].
RECURSIVE SplitFrom(_, _, _)
SplitFrom(s, sep, cur) ==
    IF s = <<>> THEN <<cur>>
    ELSE IF Head(s) = sep THEN <<cur>> \o SplitFrom(Tail(s), sep, <<>>)
    ELSE SplitFrom(Tail(s), sep, Append(cur, Head(s)))

Split(s, sep) == SplitFrom(s, sep, <<>>)

\* Array.prototype.join(sep)
RECURSIVE Join(_, _)
Join(items, sep) ==
    IF items = <<>> THEN <<>>
    ELSE IF Len(items) = 1 THEN items[1]
    ELSE items[1] \o sep \o Join(Tail(items), sep)

\* s < t in JavaScript's string order (code unit by code unit, a prefix first).
RECURSIVE StrLess(_, _)
StrLess(s, t) ==
    IF t = <<>> THEN FALSE
    ELSE IF s = <<>> THEN TRUE
    ELSE IF Head(s) = Head(t) THEN StrLess(Tail(s), Tail(t))
    ELSE Code(Head(s)) < Code(Head(t))

\* Array.prototype.filter(Boolean) on strings and null: drops "" and null.
RECURSIVE FilterBoolean(_)
FilterBoolean(items) ==
    IF items = <<>> THEN <<>>
    ELSE IF Head(items) = Null \/ Head(items) = <<>> THEN FilterBoolean(Tail(items))
    ELSE <<Head(items)>> \o FilterBoolean(Tail(items))

\* Array.from(new Set(items)): the first occurrence of each value, in order.
RECURSIVE DedupeFrom(_, _)
DedupeFrom(items, seen) ==
    IF items = <<>> THEN <<>>
    ELSE IF Head(items) \in seen THEN DedupeFrom(Tail(items), seen)
    ELSE <<Head(items)>> \o DedupeFrom(Tail(items), seen \cup {Head(items)})

Dedupe(items) == DedupeFrom(items, {})

\* Array.prototype.sort() with the default comparator (string order).
RECURSIVE InsertSorted(_, _)
InsertSorted(x, sorted) ==
    IF sorted = <<>> THEN <<x>>
    ELSE IF StrLess(Head(sorted), x) \/ Head(sorted) = x
         THEN <<Head(sorted)>> \o InsertSorted(x, Tail(sorted))
    ELSE <<x>> \o sorted

RECURSIVE SortStrings(_)
SortStrings(items) ==
    IF items = <<>> THEN <<>>
    ELSE InsertSorted(Head(items), SortStrings(Tail(items)))

----------------------------------------------------------------------------
(* parseRestartTimes *)

\* s.match(/^(\d{1,2}):(\d{2})$/)
MatchTime(s) ==
    /\ Len(s) \in {4, 5}
    /\ \A i \in 1..(Len(s) - 3) : IsDigit(s[i])
    /\ s[Len(s) - 2] = ":"
    /\ IsDigit(s[Len(s) - 1])
    /\ IsDigit(s[Len(s)])

\* parseInt(ds, 10) of a string of decimal digits
RECURSIVE ParseInt(_)
ParseInt(ds) ==
    IF ds = <<>> THEN 0
    ELSE 10 * ParseInt(SubSeq(ds, 1, Len(ds) - 1)) + DigitVal(ds[Len(ds)])

\* n.toString().padStart(2, "0") for 0 <= n <= 99
PadStart2(n) == <<DigitChar(n \div 10), DigitChar(n % 10)>>

MaxHour == 23
MaxMinute == 59

\* A clamp that lets hour 24 through (an off-by-one upper limit).
ClampHourOffByOne(n) == Max(0, Min(MaxHour + 1, n))

ClampHour(n) == Max(0, Min(MaxHour, n))
ClampMinute(n) == Max(0, Min(MaxMinute, n))

\* The mapper of parseRestartTimes: null for a string of the wrong shape,
\* else the hour and the minute clamped and zero-padded.
TimeOfEntry(s) ==
    IF ~MatchTime(s) THEN Null
    ELSE PadStart2(ClampHour(ParseInt(SubSeq(s, 1, Len(s) - 3))))
         \o <<":">>
         \o PadStart2(ClampMinute(ParseInt(SubSeq(s, Len(s) - 1, Len(s)))))

\* input.split(",").map(trim).filter(Boolean)
TrimmedEntries(input) ==
    LET parts == Split(input, ",") IN
    FilterBoolean([i \in 1..Len(parts) |-> Trim(parts[i])])

\* ... .map(mapper).filter(Boolean)
ParsedEntries(input) ==
    LET entries == TrimmedEntries(input) IN
    FilterBoolean([i \in 1..Len(entries) |-> TimeOfEntry(entries[i])])

\* parseRestartTimes without its trailing sort().
parseRestartTimesUnsorted(input) == Dedupe(ParsedEntries(input))

parseRestartTimes(input) == SortStrings(Dedupe(ParsedEntries(input)))

----------------------------------------------------------------------------
(* normalizeBaseUrl (../lib/url) *)

Lower(c) ==
    CASE c = "A" -> "a" [] c = "H" -> "h" [] c = "I" -> "i" [] c = "P" -> "p"
      [] c = "S" -> "s" [] c = "T" -> "t" [] c = "V" -> "v"
      [] OTHER -> c

LowerStr(s) == [i \in 1..Len(s) |-> Lower(s[i])]

HasPrefix(s, pre) == Len(s) >= Len(pre) /\ SubSeq(s, 1, Len(pre)) = pre
HasSuffix(s, suf) == Len(s) >= Len(suf) /\ SubSeq(s, Len(s) - Len(suf) + 1, Len(s)) = suf
DropFirst(s, n) == SubSeq(s, n + 1, Len(s))

HttpPrefix == <<"h","t","t","p",":","/","/">>
HttpsPrefix == <<"h","t","t","p","s",":","/","/">>
V1Api == <<"/","v","1","/","a","p","i">>
DefaultPort == <<"8","2","1","2">>

\* /^https?:\/\//i.test(s)
HasHttpScheme(s) ==
    \/ HasPrefix(LowerStr(s), HttpPrefix)
    \/ HasPrefix(LowerStr(s), HttpsPrefix)

\* s.replace(/\/+$/, "")
RECURSIVE StripTrailingSlashes(_)
StripTrailingSlashes(s) ==
    IF s # <<>> /\ s[Len(s)] = "/" THEN StripTrailingSlashes(SubSeq(s, 1, Len(s) - 1))
    ELSE s

RECURSIVE StripLeadingSlashes(_)
StripLeadingSlashes(s) ==
    IF s # <<>> /\ Head(s) = "/" THEN StripLeadingSlashes(Tail(s)) ELSE s

\* a test that never finds the suffix (the suffix is appended every time)
EndsWithV1ApiNever(p) == FALSE /\ HasSuffix(p, V1Api)

\* /\/v1\/api$/i.test(p)
EndsWithV1Api(p) == HasSuffix(LowerStr(p), V1Api)

\* The index of the first character of s that is in stops, or Len(s) + 1.
RECURSIVE FirstOf(_, _, _)
FirstOf(s, stops, i) ==
    IF i > Len(s) \/ s[i] \in stops THEN i ELSE FirstOf(s, stops, i + 1)

\* Number.prototype.toString for n >= 0
RECURSIVE ToDigits(_)
ToDigits(n) ==
    IF n < 10 THEN <<DigitChar(n)>> ELSE Append(ToDigits(n \div 10), DigitChar(n % 10))

MaxPort == 65535

DefaultPortOf(scheme) ==
    IF scheme = <<"h","t","t","p">> THEN <<"8","0">> ELSE <<"4","4","3">>

\* normalizeBaseUrl throwing (new URL's TypeError), and the URL record of
\* a string new URL refuses
Failure == <<"TypeError">>
UrlTypeError ==
    [ ok |-> FALSE, protocol |-> <<>>, hostname |-> <<>>, port |-> <<>>,
      pathname |-> <<>>, search |-> Null ]

\* new URL(s) for s that starts with http:// or https:// in any letter
\* case.  The record holds what the URL getters return: protocol without
\* the colon, hostname, port ("" when absent or the scheme's default),
\* pathname, and the query (Null when the string has no "?").  The
\* model's strings have no "#", "@", "\", "%", "." or "[", and no white
\* space inside: the parser's fragment, credentials, dot-segment,
\* percent-encoding and IP-address branches are not modelled.
ParseUrl(s) ==
    LET colon == FirstOf(s, {":"}, 1)
        scheme == LowerStr(SubSeq(s, 1, colon - 1))
        \* special scheme: every slash after "scheme:" is skipped
        rest == StripLeadingSlashes(DropFirst(s, colon))
        authEnd == FirstOf(rest, {"/", "?"}, 1)
        auth == SubSeq(rest, 1, authEnd - 1)
        hostEnd == FirstOf(auth, {":"}, 1)
        host == LowerStr(SubSeq(auth, 1, hostEnd - 1))
        portText == DropFirst(auth, hostEnd)
        tail == DropFirst(rest, authEnd - 1)
        pathEnd == FirstOf(tail, {"?"}, 1)
        rawPath == SubSeq(tail, 1, pathEnd - 1)
        hasQuery == pathEnd <= Len(tail)
    IN  IF host = <<>> THEN UrlTypeError
        ELSE IF \E i \in 1..Len(portText) : ~IsDigit(portText[i]) THEN UrlTypeError
        ELSE IF portText # <<>> /\ ParseInt(portText) > MaxPort THEN UrlTypeError
        ELSE [ ok       |-> TRUE,
               protocol |-> scheme,
               hostname |-> host,
               port     |-> IF portText = <<>> \/ ToDigits(ParseInt(portText)) = DefaultPortOf(scheme)
                            THEN <<>> ELSE ToDigits(ParseInt(portText)),
               pathname |-> IF rawPath = <<>> THEN <<"/">> ELSE rawPath,
               search   |-> IF hasQuery THEN DropFirst(tail, pathEnd) ELSE Null ]

\* url.toString()
Href(url) ==
    url.protocol \o <<":","/","/">> \o url.hostname
    \o (IF url.port = <<>> THEN <<>> ELSE <<":">> \o url.port)
    \o url.pathname
    \o (IF url.search = Null THEN <<>> ELSE <<"?">> \o url.search)

\* the default-port step left out
WithDefaultPortSkipped(url) == [url EXCEPT !.hostname = url.hostname]

\* if (!url.port) url.port = "8212"
WithDefaultPort(url) ==
    IF url.port = <<>> THEN [url EXCEPT !.port = DefaultPort] ELSE url

\* const p = url.pathname.replace(/\/+$/, "");
\* if (!/\/v1\/api$/i.test(p)) url.pathname = p + "/v1/api";
WithApiPath(url) ==
    LET p == StripTrailingSlashes(url.pathname) IN
    IF ~EndsWithV1Api(p) THEN [url EXCEPT !.pathname = p \o V1Api] ELSE url

normalizeBaseUrl(input) ==
    LET s == Trim(input)
        withScheme == IF ~HasHttpScheme(s) THEN HttpPrefix \o s ELSE s
        url == ParseUrl(withScheme)
    IN  IF ~url.ok THEN Failure
        ELSE StripTrailingSlashes(Href(WithApiPath(WithDefaultPort(url))))

----------------------------------------------------------------------------
(* The URL normaliser applied to every input of a bounded set, and applied *)
(* again to its own result                                                 *)

MaxSlashes == 2

Slashes(n) == [i \in 1..n |-> "/"]

UrlLeads == { <<>>, <<" ">> }
UrlSchemes == { <<>>, HttpPrefix, HttpsPrefix, <<"H","T","T","P",":","/","/">> }
UrlHosts == { <<"h">>, <<>> }
UrlPorts == { <<>>, <<":","8","0">>, <<":","4","4","3">>, <<":","8","2","1","2">>,
              <<":","9">>, <<":","9","9","9","9","9">> }
UrlPaths == { <<>>, V1Api, <<"/","V","1","/","A","P","I">>, <<"/","x">>,
              <<"/","x">> \o V1Api, <<"/","v","1">> }
UrlQueries == { <<>>, <<"?","q">>, <<"?","q","/">> }

UrlText(parts) ==
    parts.lead \o parts.scheme \o parts.host \o parts.port \o parts.path
    \o Slashes(parts.slashes) \o parts.query

UrlStart ==
    /\ urlParts \in [ lead : UrlLeads, scheme : UrlSchemes, host : UrlHosts,
                      port : UrlPorts, path : UrlPaths, slashes : 0..MaxSlashes,
                      query : UrlQueries ]
    /\ urlInput = UrlText(urlParts)
    /\ urlResult = Pending
    /\ urlAgain = Pending

NormalizeUrl ==
    /\ urlResult = Pending
    /\ urlResult' = normalizeBaseUrl(urlInput)
    /\ UNCHANGED <<urlParts, urlInput, urlAgain>>
    /\ UNCHANGED nonUrlVars

RenormalizeUrl ==
    /\ urlResult \notin {Pending, Failure}
    /\ urlAgain = Pending
    /\ urlAgain' = normalizeBaseUrl(urlResult)
    /\ UNCHANGED <<urlParts, urlInput, urlResult>>
    /\ UNCHANGED nonUrlVars

----------------------------------------------------------------------------
(* The dashboard's action panel, modals and player table *)

MaxLead == 2       \* the largest lead time the Restart modal is given
MaxRestarts == 2   \* restarts requested in one run

PlayerIds == {"p1"}

NoCountdown == 0 - 1
NoModal == [kind |-> "none", seconds |-> 0]
NoInvoke == [kind |-> "none", allow |-> TRUE]
NoReply == [got |-> FALSE, ok |-> FALSE, seconds |-> 0]
NoRestart == [active |-> FALSE, id |-> 0, remaining |-> 0]

MutatingCommands ==
    {"announce_message", "force_save", "kick_player", "ban_player",
     "restart_now", "cancel_restart", "shutdown_server", "backup_now"}
ReadCommands == {"get_server_info", "get_players"}

\* A Modal covers the window with its backdrop (position fixed, inset 0):
\* the page under it takes no click.  The Backups modal is rendered after
\* the Settings modal and lies over it.
PageClickable ==
    ~settingsOpen /\ ~backupsOpen /\ ~broadcastOpen /\ timeModal = NoModal
SettingsClickable == settingsOpen /\ ~backupsOpen

\* {allowActions && ( <div className="panel"> ... )}
PanelClickable == allowActions /\ PageClickable

\* invoke(cmd): the command's kind and the flag at the moment of the call
Invoke(cmd) ==
    lastInvoke' = [kind  |-> IF cmd \in MutatingCommands THEN "mutating" ELSE "read",
                   allow |-> allowActions]

DashIdle ==
    /\ loaded = FALSE /\ allowActions = TRUE
    /\ settingsOpen = FALSE /\ backupsOpen = FALSE /\ broadcastOpen = FALSE
    /\ broadcastMsg = <<>> /\ timeModal = NoModal /\ players = {}
    /\ restartCountdown = NoCountdown
    /\ restartReply = NoReply /\ cancelReply = NoReply
    /\ lastInvoke = NoInvoke
    /\ bePending = NoRestart /\ beNextId = 0 /\ beWarned = {} /\ beShutdown = {}
    /\ beLaunched = {}
    /\ canceledIds = {} /\ lateCancel = "none"

OpenSettings ==
    /\ PageClickable
    /\ settingsOpen' = TRUE
    /\ UNCHANGED <<loaded, allowActions, backupsOpen, broadcastOpen, broadcastMsg,
                   timeModal, players, restartCountdown, restartReply, cancelReply,
                   lastInvoke>>
    /\ UNCHANGED beVars /\ UNCHANGED nonDashVars

CloseSettings ==
    /\ SettingsClickable
    /\ settingsOpen' = FALSE
    /\ UNCHANGED <<loaded, allowActions, backupsOpen, broadcastOpen, broadcastMsg,
                   timeModal, players, restartCountdown, restartReply, cancelReply,
                   lastInvoke>>
    /\ UNCHANGED beVars /\ UNCHANGED nonDashVars

\* <input type="checkbox" checked={allowActions} onChange=... />
ToggleAllowActions ==
    /\ SettingsClickable
    /\ allowActions' = ~allowActions
    /\ UNCHANGED <<loaded, settingsOpen, backupsOpen, broadcastOpen, broadcastMsg,
                   timeModal, players, restartCountdown, restartReply, cancelReply,
                   lastInvoke>>
    /\ UNCHANGED beVars /\ UNCHANGED nonDashVars

OpenBackups ==
    /\ SettingsClickable
    /\ backupsOpen' = TRUE
    /\ UNCHANGED <<loaded, allowActions, settingsOpen, broadcastOpen, broadcastMsg,
                   timeModal, players, restartCountdown, restartReply, cancelReply,
                   lastInvoke>>
    /\ UNCHANGED beVars /\ UNCHANGED nonDashVars

CloseBackups ==
    /\ backupsOpen
    /\ backupsOpen' = FALSE
    /\ UNCHANGED <<loaded, allowActions, settingsOpen, broadcastOpen, broadcastMsg,
                   timeModal, players, restartCountdown, restartReply, cancelReply,
                   lastInvoke>>
    /\ UNCHANGED beVars /\ UNCHANGED nonDashVars

\* Backup Now in the Backups modal: the click and the invoke
BackupNowClick ==
    /\ backupsOpen
    /\ Invoke("backup_now")
    /\ UNCHANGED <<loaded, allowActions, settingsOpen, backupsOpen, broadcastOpen,
                   broadcastMsg, timeModal, players, restartCountdown, restartReply,
                   cancelReply>>
    /\ UNCHANGED beVars
    /\ UNCHANGED <<timesVars, urlVars, autoVars, cfgVars, pollVars, gwVars, refreshVars,
                   lastVars>>

\* Backup Now where the backend is left out
BackupNow == BackupNowClick /\ UNCHANGED backupVars

OpenBroadcast ==
    /\ PanelClickable
    /\ broadcastOpen' = TRUE
    /\ UNCHANGED <<loaded, allowActions, settingsOpen, backupsOpen, broadcastMsg,
                   timeModal, players, restartCountdown, restartReply, cancelReply,
                   lastInvoke>>
    /\ UNCHANGED beVars /\ UNCHANGED nonDashVars

CloseBroadcast ==
    /\ broadcastOpen
    /\ broadcastOpen' = FALSE
    /\ UNCHANGED <<loaded, allowActions, settingsOpen, backupsOpen, broadcastMsg,
                   timeModal, players, restartCountdown, restartReply, cancelReply,
                   lastInvoke>>
    /\ UNCHANGED beVars /\ UNCHANGED nonDashVars

EditBroadcast ==
    /\ broadcastOpen
    /\ \E text \in { <<>>, <<" ">>, <<"h","i">> } :
          text # broadcastMsg /\ broadcastMsg' = text
    /\ UNCHANGED <<loaded, allowActions, settingsOpen, backupsOpen, broadcastOpen,
                   timeModal, players, restartCountdown, restartReply, cancelReply,
                   lastInvoke>>
    /\ UNCHANGED beVars /\ UNCHANGED nonDashVars

\* onBroadcast, the invoke answered with success
onBroadcast ==
    /\ broadcastOpen
    /\ Trim(broadcastMsg) # <<>>
    /\ Invoke("announce_message")
    /\ broadcastMsg' = <<>>
    /\ broadcastOpen' = FALSE
    /\ UNCHANGED <<loaded, allowActions, settingsOpen, backupsOpen, timeModal,
                   players, restartCountdown, restartReply, cancelReply>>
    /\ UNCHANGED beVars /\ UNCHANGED nonDashVars

\* onSave
onSave ==
    /\ PanelClickable
    /\ Invoke("force_save")
    /\ UNCHANGED <<loaded, allowActions, settingsOpen, backupsOpen, broadcastOpen,
                   broadcastMsg, timeModal, players, restartCountdown, restartReply,
                   cancelReply>>
    /\ UNCHANGED beVars /\ UNCHANGED nonDashVars

\* refreshAll, get_server_info and then get_players answered: the players
\* listed are replaced
refreshAll ==
    /\ cfg.base_url # <<>>
    /\ Invoke("get_players")
    /\ \E list \in SUBSET PlayerIds : players' = list
    /\ UNCHANGED <<loaded, allowActions, settingsOpen, backupsOpen, broadcastOpen,
                   broadcastMsg, timeModal, restartCountdown, restartReply, cancelReply>>
    /\ UNCHANGED beVars /\ UNCHANGED nonDashVars

\* the Kick and Ban buttons of a player's row, up to the await; the
\* refreshAll that ends the handlers is the step refreshAll
onKick ==
    /\ PageClickable
    /\ \E p \in players : Invoke("kick_player")
    /\ UNCHANGED <<loaded, allowActions, settingsOpen, backupsOpen, broadcastOpen,
                   broadcastMsg, timeModal, players, restartCountdown, restartReply,
                   cancelReply>>
    /\ UNCHANGED beVars /\ UNCHANGED nonDashVars

onBan ==
    /\ PageClickable
    /\ \E p \in players : Invoke("ban_player")
    /\ UNCHANGED <<loaded, allowActions, settingsOpen, backupsOpen, broadcastOpen,
                   broadcastMsg, timeModal, players, restartCountdown, restartReply,
                   cancelReply>>
    /\ UNCHANGED beVars /\ UNCHANGED nonDashVars

\* the Restart and Shutdown buttons, and the modal's seconds field
OpenTimeModal ==
    /\ PanelClickable
    /\ \E kind \in {"restart", "shutdown"}, secs \in 0..MaxLead :
          timeModal' = [kind |-> kind, seconds |-> secs]
    /\ UNCHANGED <<loaded, allowActions, settingsOpen, backupsOpen, broadcastOpen,
                   broadcastMsg, players, restartCountdown, restartReply, cancelReply,
                   lastInvoke>>
    /\ UNCHANGED beVars /\ UNCHANGED nonDashVars

CloseTimeModal ==
    /\ timeModal # NoModal
    /\ timeModal' = NoModal
    /\ UNCHANGED <<loaded, allowActions, settingsOpen, backupsOpen, broadcastOpen,
                   broadcastMsg, players, restartCountdown, restartReply, cancelReply,
                   lastInvoke>>
    /\ UNCHANGED beVars /\ UNCHANGED nonDashVars

----------------------------------------------------------------------------
(* Restart, Cancel Restart and the backend's pending restart.  The backend *)
(* commands are not among the sources; they follow the specification's     *)
(* Scheduler: a restart request creates a ScheduledAction, announces it,   *)
(* counts the lead time down and then dispatches the shutdown call; a      *)
(* cancel destroys the ScheduledAction while its countdown is active.      *)

\* restart_now accepted: a new ScheduledAction replaces the pending one and
\* the warning is broadcast
RestartScheduled(secs) ==
    /\ bePending' = [active |-> TRUE, id |-> beNextId + 1, remaining |-> secs]
    /\ beNextId' = beNextId + 1
    /\ beWarned' = beWarned \cup {beNextId + 1}
    /\ UNCHANGED <<beShutdown, beLaunched>>

\* cancel_restart: the pending restart, if any, is destroyed
RestartCanceled ==
    /\ bePending' = NoRestart
    /\ UNCHANGED <<beNextId, beWarned, beShutdown, beLaunched>>

\* one second of the lead time passes
BackendTick ==
    /\ bePending.active /\ bePending.remaining > 0
    /\ bePending' = [bePending EXCEPT !.remaining = @ - 1]
    /\ UNCHANGED <<beNextId, beWarned, beShutdown, beLaunched, canceledIds, lateCancel>>
    /\ UNCHANGED uiVars /\ UNCHANGED nonDashVars

\* a shutdown call dispatched while lead time remains
BackendFireEarly ==
    /\ bePending.active
    /\ beShutdown' = beShutdown \cup {bePending.id}
    /\ bePending' = NoRestart
    /\ UNCHANGED <<beNextId, beWarned, beLaunched, canceledIds, lateCancel>>
    /\ UNCHANGED uiVars /\ UNCHANGED nonDashVars

\* the lead time has elapsed: the shutdown call is dispatched
BackendFire ==
    /\ bePending.active /\ bePending.remaining = 0
    /\ beShutdown' = beShutdown \cup {bePending.id}
    /\ bePending' = NoRestart
    /\ UNCHANGED <<beNextId, beWarned, beLaunched, canceledIds, lateCancel>>
    /\ UNCHANGED uiVars /\ UNCHANGED nonDashVars

\* after the shutdown call, the configured start command (if any) is
\* launched
BackendLaunch ==
    /\ \E id \in beShutdown \ beLaunched : beLaunched' = beLaunched \cup {id}
    /\ UNCHANGED <<bePending, beNextId, beWarned, beShutdown, canceledIds, lateCancel>>
    /\ UNCHANGED uiVars /\ UNCHANGED nonDashVars

\* Confirm in the Restart/Shutdown modal, up to the await of the invoke
ConfirmTimeModal ==
    /\ timeModal # NoModal
    /\ restartReply = NoReply
    /\ timeModal' = NoModal
    /\ \/ /\ timeModal.kind = "restart"
          /\ beNextId < MaxRestarts
          /\ Invoke("restart_now")
          /\ \/ /\ RestartScheduled(timeModal.seconds)
                /\ restartReply' = [got |-> TRUE, ok |-> TRUE, seconds |-> timeModal.seconds]
             \/ /\ UNCHANGED <<bePending, beNextId, beWarned, beShutdown, beLaunched>>
                /\ restartReply' = [got |-> TRUE, ok |-> FALSE, seconds |-> timeModal.seconds]
       \/ /\ timeModal.kind = "shutdown"
          /\ Invoke("shutdown_server")
          /\ UNCHANGED <<bePending, beNextId, beWarned, beShutdown, beLaunched,
                       restartReply>>
    /\ UNCHANGED <<loaded, allowActions, settingsOpen, backupsOpen, broadcastOpen,
                   broadcastMsg, players, restartCountdown, cancelReply>>
    /\ UNCHANGED <<canceledIds, lateCancel>> /\ UNCHANGED nonDashVars

\* ... and after it: setRestartCountdown(modal.seconds), or the catch
RestartAnswered ==
    /\ restartReply.got
    /\ restartCountdown' = IF restartReply.ok THEN restartReply.seconds ELSE restartCountdown
    /\ restartReply' = NoReply
    /\ UNCHANGED <<loaded, allowActions, settingsOpen, backupsOpen, broadcastOpen,
                   broadcastMsg, timeModal, players, cancelReply, lastInvoke>>
    /\ UNCHANGED beVars /\ UNCHANGED nonDashVars

\* Cancel Restart that clears the chip without telling the backend
CancelRestartUiOnly ==
    /\ PanelClickable
    /\ cancelReply = NoReply
    /\ Invoke("cancel_restart")
    /\ UNCHANGED <<bePending, beNextId, beWarned, beShutdown, beLaunched>>
    /\ cancelReply' = [got |-> TRUE, ok |-> TRUE, seconds |-> 0]
    /\ canceledIds' = IF bePending.active THEN canceledIds \cup {bePending.id} ELSE canceledIds
    /\ lateCancel' = IF bePending.active THEN lateCancel ELSE "unchanged"
    /\ UNCHANGED <<loaded, allowActions, settingsOpen, backupsOpen, broadcastOpen,
                   broadcastMsg, timeModal, players, restartCountdown, restartReply>>
    /\ UNCHANGED nonDashVars

\* Cancel Restart, up to the await of invoke('cancel_restart')
CancelRestart ==
    /\ PanelClickable
    /\ cancelReply = NoReply
    /\ Invoke("cancel_restart")
    /\ RestartCanceled
    /\ \E ok \in BOOLEAN :
          /\ bePending.active => ok
          /\ cancelReply' = [got |-> TRUE, ok |-> ok, seconds |-> 0]
    /\ canceledIds' = IF bePending.active THEN canceledIds \cup {bePending.id} ELSE canceledIds
    /\ lateCancel' =
          IF bePending.active THEN lateCancel
          ELSE IF bePending' = bePending THEN "unchanged" ELSE "changed"
    /\ UNCHANGED <<loaded, allowActions, settingsOpen, backupsOpen, broadcastOpen,
                   broadcastMsg, timeModal, players, restartCountdown, restartReply>>
    /\ UNCHANGED nonDashVars

\* a cancel answered that leaves the chip as it is
CancelAnsweredKeepsChip ==
    /\ cancelReply.got
    /\ restartCountdown' = restartCountdown
    /\ cancelReply' = NoReply
    /\ UNCHANGED <<loaded, allowActions, settingsOpen, backupsOpen, broadcastOpen,
                   broadcastMsg, timeModal, players, restartReply, lastInvoke>>
    /\ UNCHANGED beVars /\ UNCHANGED nonDashVars

\* ... and after it: setRestartCountdown(null), or the catch
CancelAnswered ==
    /\ cancelReply.got
    /\ restartCountdown' = IF cancelReply.ok THEN NoCountdown ELSE restartCountdown
    /\ cancelReply' = NoReply
    /\ UNCHANGED <<loaded, allowActions, settingsOpen, backupsOpen, broadcastOpen,
                   broadcastMsg, timeModal, players, restartReply, lastInvoke>>
    /\ UNCHANGED beVars /\ UNCHANGED nonDashVars

\* the countdown effect's one-second interval
CountdownTick ==
    /\ restartCountdown # NoCountdown
    /\ restartCountdown' = IF restartCountdown <= 1 THEN NoCountdown ELSE restartCountdown - 1
    /\ UNCHANGED <<loaded, allowActions, settingsOpen, backupsOpen, broadcastOpen,
                   broadcastMsg, timeModal, players, restartReply, cancelReply, lastInvoke>>
    /\ UNCHANGED beVars /\ UNCHANGED nonDashVars


----------------------------------------------------------------------------
(* The Auto-Restart panel and the Scheduler.  The panel's two handlers are  *)
(* the dashboard's; the commands they invoke run in the backend, which is   *)
(* not among the sources: the Scheduler follows the specification (states   *)
(* Stopped and Running, three timer loops while Running, a stop cancels     *)
(* the loops and lets a call in flight complete).                           *)

MaxRequests == 2   \* start/stop requests issued in one run

TimerKinds == {"save", "restart", "backup"}

ActiveLoops(k) == { l \in timerLoops : l.kind = k /\ ~l.canceled }

AutoIdle ==
    /\ autoSent = 0 /\ autoCalls = {} /\ autoLog = "none"
    /\ schedState = "Stopped" /\ timerLoops = {}

\* tInvoke(cmd): it throws when the Tauri bridge is missing; otherwise the
\* call is in flight until the backend answers
AutoInvoke(cmd) ==
    /\ autoSent < MaxRequests
    /\ autoSent' = autoSent + 1
    /\ \E bridge \in BOOLEAN :
          autoCalls' = autoCalls \cup
              { [id |-> autoSent + 1, cmd |-> cmd,
                 state |-> IF bridge THEN "sent" ELSE "err", dup |-> FALSE] }

\* onStartAuto, up to its await: no test of what was started before
onStartAuto ==
    /\ AutoInvoke("start_auto_restart")
    /\ UNCHANGED <<autoLog, schedState, timerLoops>>
    /\ UNCHANGED nonAutoVars

\* onStopAuto, up to its await
onStopAuto ==
    /\ AutoInvoke("stop_auto_restart")
    /\ UNCHANGED <<autoLog, schedState, timerLoops>>
    /\ UNCHANGED nonAutoVars

Answer(call, st, wasRunning) ==
    autoCalls' = (autoCalls \ {call}) \cup
                 { [call EXCEPT !.state = st, !.dup = wasRunning] }

NewLoops(call) ==
    { [kind |-> k, gen |-> call.id, busy |-> FALSE, canceled |-> FALSE,
       failed |-> FALSE] : k \in TimerKinds }

\* a start that spawns the three loops whatever the state
SchedulerStartUnguarded ==
    \E call \in autoCalls :
        /\ call.cmd = "start_auto_restart" /\ call.state = "sent"
        /\ schedState' = "Running"
        /\ timerLoops' = timerLoops \cup NewLoops(call)
        /\ Answer(call, "ok", schedState = "Running")
        /\ UNCHANGED <<autoSent, autoLog>>
        /\ UNCHANGED nonAutoVars

\* start: Stopped -> Running spawns one loop per kind; a start while
\* Running changes nothing and answers with success or with a failure
SchedulerStart ==
    \E call \in autoCalls :
        /\ call.cmd = "start_auto_restart" /\ call.state = "sent"
        /\ IF schedState = "Stopped"
              THEN /\ schedState' = "Running"
                   /\ timerLoops' = timerLoops \cup NewLoops(call)
                   /\ Answer(call, "ok", FALSE)
              ELSE /\ UNCHANGED <<schedState, timerLoops>>
                   /\ \E st \in {"ok", "err"} : Answer(call, st, TRUE)
        /\ UNCHANGED <<autoSent, autoLog>>
        /\ UNCHANGED nonAutoVars

\* a stop that leaves the timer loops running
SchedulerStopLeavesLoops ==
    \E call \in autoCalls :
        /\ call.cmd = "stop_auto_restart" /\ call.state = "sent"
        /\ schedState' = "Stopped"
        /\ UNCHANGED timerLoops
        /\ Answer(call, "ok", FALSE)
        /\ UNCHANGED <<autoSent, autoLog>>
        /\ UNCHANGED nonAutoVars

\* stop: Running -> Stopped cancels every loop; a loop whose call is in
\* flight ends when the call completes
SchedulerStop ==
    \E call \in autoCalls :
        /\ call.cmd = "stop_auto_restart" /\ call.state = "sent"
        /\ schedState' = "Stopped"
        /\ timerLoops' = { [l EXCEPT !.canceled = TRUE] : l \in { m \in timerLoops : m.busy } }
        /\ Answer(call, "ok", FALSE)
        /\ UNCHANGED <<autoSent, autoLog>>
        /\ UNCHANGED nonAutoVars

\* a timer fires: its loop issues the save, restart or backup call
TimerFire ==
    \E l \in timerLoops :
        /\ ~l.busy /\ ~l.canceled
        /\ timerLoops' = (timerLoops \ {l}) \cup { [l EXCEPT !.busy = TRUE] }
        /\ UNCHANGED <<autoSent, autoCalls, autoLog, schedState>>
        /\ UNCHANGED nonAutoVars

\* a tick whose failure ends its loop
TimerCallDoneFatal ==
    \E l \in timerLoops :
        /\ l.busy
        /\ \E ok \in BOOLEAN :
              timerLoops' = IF l.canceled \/ ~ok
                               THEN timerLoops \ {l}
                               ELSE (timerLoops \ {l}) \cup
                                    { [l EXCEPT !.busy = FALSE, !.failed = FALSE] }
        /\ UNCHANGED <<autoSent, autoCalls, autoLog, schedState>>
        /\ UNCHANGED nonAutoVars

\* the call completes or fails; a failure is recorded with the loop, which
\* waits for its next tick either way, or ends if it was canceled meanwhile
TimerCallDone ==
    \E l \in timerLoops :
        /\ l.busy
        /\ \E ok \in BOOLEAN :
              timerLoops' = IF l.canceled
                               THEN timerLoops \ {l}
                               ELSE (timerLoops \ {l}) \cup
                                    { [l EXCEPT !.busy = FALSE, !.failed = ~ok] }
        /\ UNCHANGED <<autoSent, autoCalls, autoLog, schedState>>
        /\ UNCHANGED nonAutoVars

\* after the await: pushLog("Auto-restart ON ..."), "Auto-restart OFF", or
\* the catch's "Auto-restart failed: ..." / "Stop failed: ..."
AutoAnswered ==
    \E call \in autoCalls :
        /\ call.state # "sent"
        /\ autoCalls' = autoCalls \ {call}
        /\ autoLog' = IF call.cmd = "start_auto_restart"
                         THEN (IF call.state = "ok" THEN "on" ELSE "start failed")
                         ELSE (IF call.state = "ok" THEN "off" ELSE "stop failed")
        /\ UNCHANGED <<autoSent, schedState, timerLoops>>
        /\ UNCHANGED nonAutoVars

----------------------------------------------------------------------------
(* The settings: the mount effect that loads and re-applies the saved       *)
(* record, the Settings and Backups inputs, and applySettings               *)

MaxEdits == 1          \* edits typed into the Settings and Backups inputs
MaxApplies == 1        \* clicks on Apply

NullList == <<Null>>
Absent == "absent"

\* v || null, v || "", v ?? "" on a string or null
OrNull(v) == IF v = Null \/ v = <<>> THEN Null ELSE v
OrEmpty(v) == IF v = Null THEN <<>> ELSE v
\* list ?? []
OrNoTimes(list) == IF list = NullList THEN <<>> ELSE list
\* flag ?? true, on a flag written "true" / "false" or absent
OrTrue(flag) == flag # "false"
FlagText(b) == IF b THEN "true" ELSE "false"

UrlBare == <<"h">>
UrlPadded == <<" ", "h", ":", "9">>
UrlNormal == normalizeBaseUrl(UrlBare)
UrlBad == <<"h", "t", "t", "p", ":", "/", "/">>

\* the records the settings file can hold: written by set_config, by an
\* earlier build of the dashboard (whose set_config carries the text as
\* typed, lines 76 and 1795), or by hand
DiskBaseUrls == {<<>>, UrlBare, UrlNormal}
DiskRecords ==
    [ base_url : DiskBaseUrls,
      password : {Null, <<"p">>},
      restart_times : {NullList, << <<"0","3",":","0","0">> >>},
      start_cmd : {Null, <<"a">>},
      backup_dir : {Null},
      backup_dest_dir : {Null},
      allow_actions : {Absent, "false"} ]
\* a file never saved, a file whose settings are all filled in, and a
\* file with the server's address alone
DiskConfigs ==
    { c \in DiskRecords :
        \/ c.base_url = <<>> /\ c.password = Null /\ c.restart_times = NullList
              /\ c.start_cmd = Null /\ c.allow_actions = Absent
        \/ c.password # Null /\ c.restart_times # NullList /\ c.start_cmd # Null
              /\ c.base_url # <<>>
        \/ c.base_url = UrlNormal /\ c.password = Null /\ c.restart_times = NullList
              /\ c.start_cmd = Null }

BaseUrlTexts == {UrlPadded, UrlBad}
PasswordTexts == {<<"q">>}
StartCmdTexts == {<<"b">>}
TimesTexts == {<<"3",":","0","0">>}
BackupDirTexts == {<<"s">>}
BackupDestDirTexts == {<<"d">>}

NoCfg == [ base_url |-> <<>>, password |-> <<>>, restart_times |-> NullList,
           start_cmd |-> Null, backup_dir |-> Null, backup_dest_dir |-> Null ]
NoPayload == [ sent |-> FALSE, path |-> "none", base_url |-> Null, password |-> Null,
               restart_times |-> <<>>, start_cmd |-> Null, backup_dir |-> Null,
               backup_dest_dir |-> Null, allow_actions |-> Absent ]
NoApply == [ state |-> "none", payload |-> NoPayload, next |-> NoCfg ]
NoUpdate == [ done |-> FALSE, payload |-> NoPayload, cfg |-> NoCfg,
              allowActions |-> TRUE ]

ConfigIdle ==
    /\ diskCfg = [ base_url |-> <<>>, password |-> Null, restart_times |-> NullList,
                   start_cmd |-> Null, backup_dir |-> Null, backup_dest_dir |-> Null,
                   allow_actions |-> Absent ]
    /\ mountPc = "idle" /\ cfg = NoCfg /\ restartTimesText = <<>>
    /\ startCmd = <<>> /\ backupDir = <<>> /\ backupDestDir = <<>>
    /\ typed = [edits |-> 0, applies |-> 0]
    /\ pendingApply = NoApply /\ lastPayload = NoPayload /\ observed = NoUpdate
    /\ lastAppliedRef = <<>>

ConfigStart ==
    /\ diskCfg \in DiskConfigs
    /\ mountPc = "loading" /\ cfg = NoCfg /\ restartTimesText = <<>>
    /\ startCmd = <<>> /\ backupDir = <<>> /\ backupDestDir = <<>>
    /\ typed = [edits |-> 0, applies |-> 0]
    /\ pendingApply = NoApply /\ lastPayload = NoPayload /\ observed = NoUpdate
    /\ lastAppliedRef = <<>>

\* the dashboard state no settings handler writes
uiRest == <<settingsOpen, backupsOpen, broadcastOpen, broadcastMsg, timeModal,
            restartCountdown, restartReply, cancelReply>>
notCfgVars == <<timesVars, urlVars, autoVars, beVars, uiRest, laterVars>>

TimesJoined(list) == Join(list, <<",", " ">>)

\* the payload of the one-time auto-apply (lines 564-580)
MountPayload(c) ==
    [ sent |-> TRUE, path |-> "mount",
      base_url |-> Trim(OrEmpty(c.base_url)),
      password |-> OrNull(OrEmpty(c.password)),
      restart_times |-> OrNoTimes(c.restart_times),
      start_cmd |-> OrNull(c.start_cmd),
      backup_dir |-> OrNull(c.backup_dir),
      backup_dest_dir |-> OrNull(c.backup_dest_dir),
      allow_actions |-> FlagText(OrTrue(c.allow_actions)) ]

\* `${base}|${password}|${times.join(",")}|${start}|${dir}|${dest}|${hook}`
\* with no Discord webhook set
Snapshot(base, password, times, start, dir, dest) ==
    Join(<<base, password, Join(times, <<",">>), start, dir, dest, <<>>>>, <<"|">>)

\* line 583: the saved record, its base URL normalised
MountSnapshot(c) ==
    Snapshot(normalizeBaseUrl(Trim(OrEmpty(c.base_url))), OrEmpty(c.password),
             OrNoTimes(c.restart_times), OrEmpty(c.start_cmd),
             OrEmpty(c.backup_dir), OrEmpty(c.backup_dest_dir))

\* line 685: what applySettings submitted
ApplySnapshot(payload) ==
    Snapshot(payload.base_url, OrEmpty(payload.password), payload.restart_times,
             OrEmpty(payload.start_cmd), OrEmpty(payload.backup_dir),
             OrEmpty(payload.backup_dest_dir))

\* mount effect, get_config answered: the states are set from the record
\* and, when a base URL is saved, set_config is invoked with it
MountConfigLoaded ==
    /\ mountPc = "loading"
    /\ LET c == diskCfg
           base_url == Trim(OrEmpty(c.base_url))
       IN /\ cfg' = [ base_url |-> base_url,
                      password |-> OrEmpty(c.password),
                      restart_times |-> OrNoTimes(c.restart_times),
                      start_cmd |-> c.start_cmd,
                      backup_dir |-> c.backup_dir,
                      backup_dest_dir |-> c.backup_dest_dir ]
          /\ restartTimesText' = TimesJoined(OrNoTimes(c.restart_times))
          /\ startCmd' = OrEmpty(c.start_cmd)
          /\ backupDir' = OrEmpty(c.backup_dir)
          /\ backupDestDir' = OrEmpty(c.backup_dest_dir)
          /\ allowActions' = OrTrue(c.allow_actions)
          /\ IF base_url # <<>>
                THEN /\ lastPayload' = MountPayload(c)
                     /\ observed' = [ done |-> TRUE, payload |-> MountPayload(c),
                                      cfg |-> cfg', allowActions |-> allowActions' ]
                     /\ mountPc' = "applying"
                     /\ loaded' = loaded
                ELSE /\ UNCHANGED <<lastPayload, observed, lastAppliedRef>>
                     /\ mountPc' = "not set"
                     /\ loaded' = TRUE
    /\ UNCHANGED <<diskCfg, typed, pendingApply, lastAppliedRef, players, lastInvoke>>
    /\ UNCHANGED notCfgVars

\* mount effect, get_config rejected: "Failed to load settings"
MountConfigFailed ==
    /\ mountPc = "loading"
    /\ mountPc' = "failed"
    /\ UNCHANGED <<diskCfg, cfg, restartTimesText, startCmd, backupDir, backupDestDir,
                   typed, pendingApply, lastPayload, observed, lastAppliedRef>>
    /\ UNCHANGED <<loaded, allowActions, players, lastInvoke>>
    /\ UNCHANGED notCfgVars

\* mount effect, set_config answered or rejected: the log line, then
\* refreshAll with the first render's cfg (base_url "": it returns at
\* once), then loadedRef
MountApplied ==
    /\ mountPc = "applying"
    /\ mountPc' = "applied"
    /\ \E ok \in BOOLEAN :
          lastAppliedRef' = IF ok THEN MountSnapshot(diskCfg) ELSE lastAppliedRef
    /\ loaded' = TRUE
    /\ UNCHANGED <<diskCfg, cfg, restartTimesText, startCmd, backupDir, backupDestDir,
                   typed, pendingApply, lastPayload, observed>>
    /\ UNCHANGED <<allowActions, players, lastInvoke>>
    /\ UNCHANGED notCfgVars

\* the Settings inputs
EditBaseUrl ==
    /\ typed.edits < MaxEdits
    /\ typed' = [typed EXCEPT !.edits = @ + 1]
    /\ SettingsClickable
    /\ \E t \in BaseUrlTexts : cfg' = [cfg EXCEPT !.base_url = t]
    /\ UNCHANGED <<diskCfg, mountPc, restartTimesText, startCmd, backupDir,
                   backupDestDir, pendingApply, lastPayload, observed, lastAppliedRef>>
    /\ UNCHANGED <<loaded, allowActions, players, lastInvoke>>
    /\ UNCHANGED notCfgVars

EditPassword ==
    /\ typed.edits < MaxEdits
    /\ typed' = [typed EXCEPT !.edits = @ + 1]
    /\ SettingsClickable
    /\ \E t \in PasswordTexts : cfg' = [cfg EXCEPT !.password = t]
    /\ UNCHANGED <<diskCfg, mountPc, restartTimesText, startCmd, backupDir,
                   backupDestDir, pendingApply, lastPayload, observed, lastAppliedRef>>
    /\ UNCHANGED <<loaded, allowActions, players, lastInvoke>>
    /\ UNCHANGED notCfgVars

EditStartCmd ==
    /\ typed.edits < MaxEdits
    /\ typed' = [typed EXCEPT !.edits = @ + 1]
    /\ SettingsClickable
    /\ \E t \in StartCmdTexts : startCmd' = t
    /\ UNCHANGED <<diskCfg, mountPc, cfg, restartTimesText, backupDir,
                   backupDestDir, pendingApply, lastPayload, observed, lastAppliedRef>>
    /\ UNCHANGED <<loaded, allowActions, players, lastInvoke>>
    /\ UNCHANGED notCfgVars

EditRestartTimes ==
    /\ typed.edits < MaxEdits
    /\ typed' = [typed EXCEPT !.edits = @ + 1]
    /\ SettingsClickable
    /\ \E t \in TimesTexts : restartTimesText' = t
    /\ UNCHANGED <<diskCfg, mountPc, cfg, startCmd, backupDir,
                   backupDestDir, pendingApply, lastPayload, observed, lastAppliedRef>>
    /\ UNCHANGED <<loaded, allowActions, players, lastInvoke>>
    /\ UNCHANGED notCfgVars

\* the Backups inputs
EditBackupDir ==
    /\ typed.edits < MaxEdits
    /\ typed' = [typed EXCEPT !.edits = @ + 1]
    /\ backupsOpen
    /\ \E t \in BackupDirTexts : backupDir' = t
    /\ UNCHANGED <<diskCfg, mountPc, cfg, restartTimesText, startCmd,
                   backupDestDir, pendingApply, lastPayload, observed, lastAppliedRef>>
    /\ UNCHANGED <<loaded, allowActions, players, lastInvoke>>
    /\ UNCHANGED notCfgVars

EditBackupDestDir ==
    /\ typed.edits < MaxEdits
    /\ typed' = [typed EXCEPT !.edits = @ + 1]
    /\ backupsOpen
    /\ \E t \in BackupDestDirTexts : backupDestDir' = t
    /\ UNCHANGED <<diskCfg, mountPc, cfg, restartTimesText, startCmd,
                   backupDir, pendingApply, lastPayload, observed, lastAppliedRef>>
    /\ UNCHANGED <<loaded, allowActions, players, lastInvoke>>
    /\ UNCHANGED notCfgVars

\* the payload applySettings builds (lines 660-674): no allow_actions key
ApplyPayload(next, base, restart_times) ==
    [ sent |-> TRUE, path |-> "apply",
      base_url |-> base,
      password |-> OrNull(next.password),
      restart_times |-> restart_times,
      start_cmd |-> OrNull(startCmd),
      backup_dir |-> OrNull(backupDir),
      backup_dest_dir |-> OrNull(backupDestDir),
      allow_actions |-> Absent ]

\* an Apply that submits whatever normalizeBaseUrl gave, a thrown
\* TypeError included
applySettingsUnvalidated ==
    /\ SettingsClickable
    /\ typed.applies < MaxApplies
    /\ typed' = [typed EXCEPT !.applies = @ + 1]
    /\ pendingApply.state \notin {"sent", "refreshing"}
    /\ LET next == [cfg EXCEPT !.base_url = Trim(cfg.base_url)]
           base == normalizeBaseUrl(Trim(OrEmpty(next.base_url)))
           restart_times == parseRestartTimes(restartTimesText)
       IN /\ pendingApply' =
                 [ state |-> "sent",
                   payload |-> ApplyPayload(next, base, restart_times),
                   next |-> next ]
          /\ lastPayload' = ApplyPayload(next, base, restart_times)
    /\ UNCHANGED <<diskCfg, mountPc, cfg, restartTimesText, startCmd, backupDir,
                   backupDestDir, observed, lastAppliedRef>>
    /\ UNCHANGED <<loaded, allowActions, players, lastInvoke>>
    /\ UNCHANGED notCfgVars

\* Apply: applySettings({...cfg, base_url: cfg.base_url.trim()}) up to its
\* await; new URL throwing lands in the catch ("Apply failed").  One call
\* is followed at a time: Apply is clicked again once the last has ended.
applySettings ==
    /\ SettingsClickable
    /\ typed.applies < MaxApplies
    /\ typed' = [typed EXCEPT !.applies = @ + 1]
    /\ pendingApply.state \notin {"sent", "refreshing"}
    /\ LET next == [cfg EXCEPT !.base_url = Trim(cfg.base_url)]
           base == normalizeBaseUrl(Trim(OrEmpty(next.base_url)))
           restart_times == parseRestartTimes(restartTimesText)
       IN IF base = Failure
             THEN /\ pendingApply' = [NoApply EXCEPT !.state = "threw"]
                  /\ UNCHANGED lastPayload
             ELSE /\ pendingApply' =
                         [ state |-> "sent",
                           payload |-> ApplyPayload(next, base, restart_times),
                           next |-> next ]
                  /\ lastPayload' = ApplyPayload(next, base, restart_times)
    /\ UNCHANGED <<diskCfg, mountPc, cfg, restartTimesText, startCmd, backupDir,
                   backupDestDir, observed, lastAppliedRef>>
    /\ UNCHANGED <<loaded, allowActions, players, lastInvoke>>
    /\ UNCHANGED notCfgVars

\* set_config answered: setCfg({...next, base_url: base, restart_times}),
\* setRestartTimesText(restart_times.join(", ")); rejected: the catch
ApplyAnswered ==
    /\ pendingApply.state = "sent"
    /\ \E ok \in BOOLEAN :
          IF ok
             THEN /\ cfg' = [pendingApply.next EXCEPT
                                !.base_url = pendingApply.payload.base_url,
                                !.restart_times = pendingApply.payload.restart_times]
                  /\ restartTimesText' = TimesJoined(pendingApply.payload.restart_times)
                  /\ observed' = [ done |-> TRUE, payload |-> pendingApply.payload,
                                   cfg |-> cfg', allowActions |-> allowActions ]
                  /\ lastAppliedRef' = ApplySnapshot(pendingApply.payload)
                  /\ pendingApply' = [pendingApply EXCEPT !.state = "refreshing"]
             ELSE /\ pendingApply' = [pendingApply EXCEPT !.state = "rejected"]
                  /\ UNCHANGED <<cfg, restartTimesText, observed, lastAppliedRef>>
    /\ UNCHANGED <<diskCfg, mountPc, startCmd, backupDir, backupDestDir, typed,
                   lastPayload>>
    /\ UNCHANGED <<loaded, allowActions, players, lastInvoke>>
    /\ UNCHANGED notCfgVars

\* the refreshAll that ends applySettings: the players listed are replaced
ApplyRefreshed ==
    /\ pendingApply.state = "refreshing"
    /\ pendingApply' = [pendingApply EXCEPT !.state = "applied"]
    /\ Invoke("get_players")
    /\ \E list \in SUBSET PlayerIds : players' = list
    /\ UNCHANGED <<diskCfg, mountPc, cfg, restartTimesText, startCmd, backupDir,
                   backupDestDir, typed, lastPayload, observed, lastAppliedRef>>
    /\ UNCHANGED <<loaded, allowActions>>
    /\ UNCHANGED notCfgVars

----------------------------------------------------------------------------
(* The polling dashboard: the effect that calls refresh on mount and every  *)
(* 5 seconds, and its cleanup (Dashboard.tsx lines 86-111)                   *)

MaxPolls == 3   \* calls of refresh in one run

NoRefresh == 0

PollIdle ==
    /\ pollPc = "unmounted" /\ stop = FALSE /\ pollCount = 0 /\ pollRuns = {}
    /\ server = NoRefresh
    /\ polled = [players |-> NoRefresh, durations |-> NoRefresh]

\* refresh(), up to its first await: get_server_info is in flight
StartRefresh ==
    /\ pollCount' = pollCount + 1
    /\ pollRuns' = pollRuns \cup { [id |-> pollCount + 1, pc |-> "info", info |-> "pending"] }

\* the effect runs: refresh() and setInterval(refresh, 5000)
PollMount ==
    /\ pollPc = "unmounted"
    /\ pollPc' = "mounted"
    /\ StartRefresh
    /\ UNCHANGED <<stop, server, polled>>
    /\ UNCHANGED nonPollVars

\* the interval fires: refresh() is called, whatever is still in flight
PollTick ==
    /\ pollPc = "mounted"
    /\ pollCount < MaxPolls
    /\ StartRefresh
    /\ UNCHANGED <<pollPc, stop, server, polled>>
    /\ UNCHANGED nonPollVars

\* what became of an answer: written by the setter, dropped because stop
\* is set, or failed (the catch)
Outcome(ok, stopped) == IF ~ok THEN "failed" ELSE IF stopped THEN "dropped" ELSE "written"

\* get_server_info answered and setServer(s) called without the test of stop
PollInfoAnsweredNoStop ==
    \E run \in pollRuns :
        /\ run.pc = "info"
        /\ \E ok \in BOOLEAN :
              /\ server' = IF ok THEN run.id ELSE server
              /\ pollRuns' = (pollRuns \ {run}) \cup
                     { [run EXCEPT !.pc = "players", !.info = Outcome(ok, FALSE)] }
        /\ UNCHANGED <<pollPc, stop, pollCount, polled>>
        /\ UNCHANGED nonPollVars

\* get_server_info answered: if (!stop) setServer(s), or the catch; then
\* get_players is invoked
PollInfoAnswered ==
    \E run \in pollRuns :
        /\ run.pc = "info"
        /\ \E ok \in BOOLEAN :
              /\ server' = IF ok /\ ~stop THEN run.id ELSE server
              /\ pollRuns' = (pollRuns \ {run}) \cup
                     { [run EXCEPT !.pc = "players", !.info = Outcome(ok, stop)] }
        /\ UNCHANGED <<pollPc, stop, pollCount, polled>>
        /\ UNCHANGED nonPollVars

\* get_players answered: player_durations is invoked, or the catch ends
\* the refresh
PollPlayersAnswered ==
    \E run \in pollRuns :
        /\ run.pc = "players"
        /\ \E ok \in BOOLEAN :
              pollRuns' = IF ok
                             THEN (pollRuns \ {run}) \cup { [run EXCEPT !.pc = "durations"] }
                             ELSE pollRuns \ {run}
        /\ UNCHANGED <<pollPc, stop, pollCount, server, polled>>
        /\ UNCHANGED nonPollVars

\* player_durations answered: if (!stop) { setPlayers(p); setDurations(d) },
\* or the catch
PollDurationsAnswered ==
    \E run \in pollRuns :
        /\ run.pc = "durations"
        /\ \E ok \in BOOLEAN :
              polled' = IF ok /\ ~stop
                           THEN [players |-> run.id, durations |-> run.id]
                           ELSE polled
        /\ pollRuns' = pollRuns \ {run}
        /\ UNCHANGED <<pollPc, stop, pollCount, server>>
        /\ UNCHANGED nonPollVars

\* the cleanup: stop = true; clearInterval(t)
PollUnmount ==
    /\ pollPc = "mounted"
    /\ pollPc' = "cleaned"
    /\ stop' = TRUE
    /\ UNCHANGED <<pollCount, pollRuns, server, polled>>
    /\ UNCHANGED nonPollVars

----------------------------------------------------------------------------
(* The Backup Engine (src-tauri, not among the sources; modelled from the  *)
(* README's Automation Details and the specification's section 4.3) and    *)
(* the Backup Now handler that calls it (Dashboard.tsx lines 1110-1117)    *)

MaxBackups == 2        \* backup_now calls
MaxDays == 2           \* days the clock advances
RetentionDays == 3     \* "pruning files older than three days"
Day0 == 100            \* the day the clock starts at
SeedAges == <<100, 4, 2>>   \* the ages of the archives found at the start

NoLog == "none"

BackupIdle ==
    /\ today = Day0 /\ sourceExists = FALSE /\ destArchives = {}
    /\ bkCount = 0 /\ bkCalls = {} /\ bkLog = NoLog

\* the destination holds some of the seed archives; some cannot be deleted
BackupStart ==
    /\ today = Day0
    /\ sourceExists \in BOOLEAN
    /\ \E present \in SUBSET (1..Len(SeedAges)) :
          \E stuck \in SUBSET present :
              destArchives = { [name |-> i, created |-> Day0 - SeedAges[i],
                                locked |-> i \in stuck] : i \in present }
    /\ bkCount = 0 /\ bkCalls = {} /\ bkLog = NoLog

\* older than the retention window on a day
Stale(a, day) == day - a.created > RetentionDays

\* the directory listing: the archives by name (names are timestamps)
RECURSIVE Listing(_)
Listing(files) ==
    IF files = {} THEN <<>>
    ELSE LET a == CHOOSE x \in files : \A y \in files : x.name <= y.name
         IN  <<a>> \o Listing(files \ {a})

\* a sweep that gives up at the first deletion that fails
RECURSIVE SweepAborting(_, _)
SweepAborting(list, day) ==
    IF list = <<>> THEN {}
    ELSE LET a == Head(list)
         IN  IF Stale(a, day) /\ a.locked THEN { list[i] : i \in 1..Len(list) }
             ELSE IF Stale(a, day) THEN SweepAborting(Tail(list), day)
             ELSE {a} \cup SweepAborting(Tail(list), day)

\* the retention sweep: what is left of the listing. A stale archive is
\* deleted; where the deletion fails the archive stays and the sweep goes on
RECURSIVE Sweep(_, _)
Sweep(list, day) ==
    IF list = <<>> THEN {}
    ELSE LET a == Head(list)
         IN  IF Stale(a, day) /\ ~a.locked THEN Sweep(Tail(list), day)
             ELSE {a} \cup Sweep(Tail(list), day)

\* invoke('backup_now', { srcOverride: backupDir || null,
\*                        destOverride: backupDestDir || null })
BackupNowInvoked ==
    /\ bkCount < MaxBackups
    /\ BackupNowClick
    /\ bkCount' = bkCount + 1
    /\ bkCalls' = bkCalls \cup { [ id |-> bkCount + 1, state |-> "pending",
                                   src |-> OrNull(backupDir),
                                   dest |-> OrNull(backupDestDir),
                                   swept |-> {} ] }
    /\ UNCHANGED <<today, sourceExists, destArchives, bkLog>>

\* the source of a run: the override, else the configured directory
SourceOf(call) == IF call.src # Null THEN call.src ELSE OrNull(diskCfg.backup_dir)
SourceFound(call) == SourceOf(call) # Null /\ sourceExists

\* the archive a run writes
NewArchive(call, stuck) ==
    [name |-> Len(SeedAges) + call.id, created |-> today, locked |-> stuck]

\* the run returns: the call's result and the destination's contents
BackupReturns(call, result, files) ==
    /\ destArchives' = files
    /\ bkCalls' = (bkCalls \ {call}) \cup
                    { [call EXCEPT !.state = result,
                                   !.swept = { a.name : a \in destArchives \ files }] }
    /\ UNCHANGED <<today, sourceExists, bkCount, bkLog>>
    /\ UNCHANGED nonBackupVars

\* a run that writes the archive before it looks at the source
BackupRunArchivesFirst ==
    \E call \in bkCalls :
        /\ call.state = "pending"
        /\ \E stuck \in BOOLEAN :
              LET written == destArchives \cup {NewArchive(call, stuck)}
              IN  IF ~SourceFound(call)
                     THEN BackupReturns(call, "IoError", written)
                     ELSE BackupReturns(call, "ok", Sweep(Listing(written), today))

\* a run whose sweep gives up at the first deletion that fails
BackupRunSweepAborts ==
    \E call \in bkCalls :
        /\ call.state = "pending"
        /\ IF ~SourceFound(call)
              THEN BackupReturns(call, "IoError", destArchives)
              ELSE \E stuck \in BOOLEAN :
                      BackupReturns(call, "ok",
                          SweepAborting(Listing(destArchives \cup {NewArchive(call, stuck)}),
                                        today))

\* run(sourceDir, destDir): IoError when the source does not exist or the
\* destination cannot be created, ArchiveError when the compression fails
\* (the partial archive is removed); on success the archive is written and
\* the destination is swept
BackupRun ==
    \E call \in bkCalls :
        /\ call.state = "pending"
        /\ IF ~SourceFound(call)
              THEN BackupReturns(call, "IoError", destArchives)
              ELSE \E outcome \in {"ok", "IoError", "ArchiveError"} :
                      IF outcome # "ok"
                         THEN BackupReturns(call, outcome, destArchives)
                         ELSE \E stuck \in BOOLEAN :
                                 BackupReturns(call, "ok",
                                     Sweep(Listing(destArchives \cup {NewArchive(call, stuck)}),
                                           today))

\* the handler after the await: pushLog(`Backup created: ${path}`), or the
\* catch: pushLog(`Backup failed: ...`)
BackupLogged ==
    \E call \in bkCalls :
        /\ call.state # "pending"
        /\ bkLog' = IF call.state = "ok" THEN "created" ELSE "failed"
        /\ bkCalls' = bkCalls \ {call}
        /\ UNCHANGED <<today, sourceExists, destArchives, bkCount>>
        /\ UNCHANGED nonBackupVars

\* a day passes
DayPasses ==
    /\ today < Day0 + MaxDays
    /\ today' = today + 1
    /\ UNCHANGED <<sourceExists, destArchives, bkCount, bkCalls, bkLog>>
    /\ UNCHANGED nonBackupVars

----------------------------------------------------------------------------
(* The HTTP helpers of the earlier client (src/unnamed/part_004)           *)

GatewayOps == {"GetApiRequestResponse", "SendApiRequest", "checkConnection"}
PasswordKinds == {"latin1", "wide"}
Statuses == {200, 204, 400, 401, 403, 404, 500}

\* what fetch does: it resolves to a response with a status and a body that
\* is JSON or not, or it rejects (the host is unreachable, the request
\* timed out)
FetchOutcomes ==
    [ kind : {"response"}, status : Statuses, json : BOOLEAN ]
    \cup [ kind : {"rejects"}, status : {0}, json : {FALSE} ]

GwPending == [ state |-> "pending", value |-> <<>> ]
Returned(v) == [ state |-> "returned", value |-> v ]
Raised(e) == [ state |-> "raised", value |-> <<e>> ]
Undefined == <<"undefined">>
Json == <<"json">>
Status(n) == <<"status", n>>

GatewayIdle ==
    /\ gwOp = "none" /\ gwPassword = "latin1"
    /\ gwFetch = [ kind |-> "rejects", status |-> 0, json |-> FALSE ]
    /\ gwResult = GwPending

GatewayStart ==
    /\ gwOp \in GatewayOps
    /\ gwPassword \in PasswordKinds
    /\ gwFetch \in FetchOutcomes
    /\ gwResult = GwPending

\* btoa(`admin:${password}`) throws InvalidCharacterError on a character
\* above U+00FF
BtoaThrows == gwPassword = "wide"

\* GetApiRequestResponse: the fetch is awaited with no try; on status 200 the
\* body is parsed and returned, on any other status the function falls off
\* its end
CallGetApiRequestResponse ==
    /\ gwOp = "GetApiRequestResponse" /\ gwResult = GwPending
    /\ gwResult' =
          IF BtoaThrows THEN Raised("InvalidCharacterError")
          ELSE IF gwFetch.kind = "rejects" THEN Raised("FetchError")
          ELSE IF gwFetch.status # 200 THEN Returned(Undefined)
          ELSE IF gwFetch.json THEN Returned(Json)
          ELSE Raised("SyntaxError")
    /\ UNCHANGED <<gwOp, gwPassword, gwFetch>>
    /\ UNCHANGED nonGwVars

\* SendApiRequest: the fetch is awaited with no try; the status is returned
CallSendApiRequest ==
    /\ gwOp = "SendApiRequest" /\ gwResult = GwPending
    /\ gwResult' =
          IF BtoaThrows THEN Raised("InvalidCharacterError")
          ELSE IF gwFetch.kind = "rejects" THEN Raised("FetchError")
          ELSE Returned(Status(gwFetch.status))
    /\ UNCHANGED <<gwOp, gwPassword, gwFetch>>
    /\ UNCHANGED nonGwVars

\* checkConnection: try { ... return response.status } catch (e) { return 400 }
CallCheckConnection ==
    /\ gwOp = "checkConnection" /\ gwResult = GwPending
    /\ gwResult' =
          IF BtoaThrows \/ gwFetch.kind = "rejects" THEN Returned(Status(400))
          ELSE Returned(Status(gwFetch.status))
    /\ UNCHANGED <<gwOp, gwPassword, gwFetch>>
    /\ UNCHANGED nonGwVars

----------------------------------------------------------------------------
(* refreshAll and the periodic refresh (Dashboard.tsx lines 597-609 and    *)
(* 705-755). Time is counted in units of 30 seconds, the interval's period *)

MaxClock == 3          \* units the clock advances
MaxRefreshes == 2      \* calls of refreshAll that invoke the backend
HoldUnits == 2         \* Date.now() + 60_000

NoIssue == [ n |-> 0, cmd |-> "none", at |-> 0, held |-> FALSE, mount |-> "none",
             applied |-> FALSE ]

\* the players the server may list
RosterIds == {"p1", "p2"}

NoLines == [ ok |-> FALSE, list |-> {}, joined |-> {}, left |-> {} ]

RefreshIdle ==
    /\ now = 0 /\ refreshHoldUntil = 0 /\ lastTick = 0
    /\ refreshCount = 0 /\ refreshRuns = {} /\ issued = NoIssue
    /\ prevPlayersRef = {} /\ playerLog = NoLines

\* invoke(cmd) of a server read: what is recorded of it is the time, whether
\* the hold window then in force covers it, and where the mount effect stood
IssueRead(cmd, hold) ==
    issued' = [ n |-> issued.n + 1, cmd |-> cmd, at |-> now, held |-> now < hold,
                mount |-> mountPc, applied |-> lastAppliedRef # <<>> ]

\* refreshAll's guards (lines 706-708)
RefreshSkipped == cfg.base_url = <<>> \/ now < refreshHoldUntil

\* refreshAll up to its first await: get_server_info is invoked
BeginRefreshAll ==
    /\ refreshCount < MaxRefreshes
    /\ refreshCount' = refreshCount + 1
    /\ refreshRuns' = refreshRuns \cup { [id |-> refreshCount + 1, pc |-> "info"] }
    /\ IssueRead("get_server_info", refreshHoldUntil)

\* the Refresh and Refresh Players buttons: onClick={refreshAll}
RefreshClick ==
    /\ PageClickable
    /\ ~RefreshSkipped
    /\ BeginRefreshAll
    /\ UNCHANGED <<now, refreshHoldUntil, lastTick, prevPlayersRef, playerLog>>
    /\ UNCHANGED nonRefreshVars

\* the interval of the periodic effect fires: it returns inside the hold
\* window, else it calls refreshAll. The effect sets the interval up only
\* when cfg.base_url is set
PeriodicTick ==
    /\ cfg.base_url # <<>>
    /\ lastTick < now
    /\ lastTick' = now
    /\ IF RefreshSkipped
          THEN UNCHANGED <<refreshCount, refreshRuns, issued>>
          ELSE BeginRefreshAll
    /\ UNCHANGED <<now, refreshHoldUntil, prevPlayersRef, playerLog>>
    /\ UNCHANGED nonRefreshVars

\* get_server_info answered or rejected. The catch sets refreshHoldUntil 60
\* seconds ahead on a connection failure (the effect then sets its interval
\* up again). Either way the second try follows and invokes get_players
RefreshInfoAnswered ==
    \E run \in refreshRuns :
        /\ run.pc = "info"
        /\ \E outcome \in {"ok", "refused", "other error"} :
              /\ refreshHoldUntil' = IF outcome = "refused" THEN now + HoldUnits
                                                           ELSE refreshHoldUntil
              /\ lastTick' = IF refreshHoldUntil' # refreshHoldUntil THEN now ELSE lastTick
        /\ refreshRuns' = (refreshRuns \ {run}) \cup { [run EXCEPT !.pc = "players"] }
        /\ IssueRead("get_players", refreshHoldUntil')
        /\ UNCHANGED <<now, refreshCount, prevPlayersRef, playerLog>>
        /\ UNCHANGED nonRefreshVars

\* the lines logged for a list answered: "Player joined" for the ids of the
\* list that prev lacks, "Player left" for the ids of prev the list lacks
PlayerLines(prev, list) ==
    [ ok |-> TRUE, list |-> list, joined |-> list \ prev, left |-> prev \ list ]

\* get_players answered, and the remembered ids are left as they were
RefreshPlayersAnsweredNoRemember ==
    \E run \in refreshRuns :
        /\ run.pc = "players"
        /\ refreshRuns' = refreshRuns \ {run}
        /\ \E ok \in BOOLEAN, list \in SUBSET RosterIds :
              /\ playerLog' = IF ok THEN PlayerLines(prevPlayersRef, list) ELSE NoLines
              /\ prevPlayersRef' = prevPlayersRef
        /\ UNCHANGED <<now, refreshHoldUntil, lastTick, refreshCount, issued>>
        /\ UNCHANGED nonRefreshVars

\* get_players answered: the joined and left lines are logged against
\* prevPlayersRef.current, which is then set to the list; or rejected: the
\* empty catch. refreshAll returns
RefreshPlayersAnswered ==
    \E run \in refreshRuns :
        /\ run.pc = "players"
        /\ refreshRuns' = refreshRuns \ {run}
        /\ \E ok \in BOOLEAN, list \in SUBSET RosterIds :
              /\ playerLog' = IF ok THEN PlayerLines(prevPlayersRef, list) ELSE NoLines
              /\ prevPlayersRef' = IF ok THEN list ELSE prevPlayersRef
        /\ UNCHANGED <<now, refreshHoldUntil, lastTick, refreshCount, issued>>
        /\ UNCHANGED nonRefreshVars

\* 30 seconds pass
ClockTick ==
    /\ now < MaxClock
    /\ now' = now + 1
    /\ UNCHANGED <<refreshHoldUntil, lastTick, refreshCount, refreshRuns, issued,
                   prevPlayersRef, playerLog>>
    /\ UNCHANGED nonRefreshVars

----------------------------------------------------------------------------
(* Force Save: onSave of the dashboard with the 8-second cool-down         *)
(* (Dashboard.tsx lines 770-782, "v3") and of the one without it (lines    *)
(* 1843-1857, "v5")                                                        *)

MaxSaves == 20         \* force_save invocations

SaveIdle ==
    /\ saveVersion = "v3" /\ saving = FALSE /\ saveCount = 0
    /\ saveFlight = 0 /\ saveTimers = 0 /\ saveLog = "none"

SaveStart ==
    /\ saveVersion \in {"v3", "v5"} /\ saving = FALSE /\ saveCount = 0
    /\ saveFlight = 0 /\ saveTimers = 0 /\ saveLog = "none"

\* an onSave that does not look at the saving flag
onSaveUnguarded ==
    /\ saveCount < MaxSaves
    /\ saving' = TRUE
    /\ saveCount' = saveCount + 1
    /\ saveFlight' = saveFlight + 1
    /\ saveLog' = IF saveVersion = "v3" THEN "started" ELSE saveLog
    /\ UNCHANGED <<saveVersion, saveTimers>>
    /\ UNCHANGED nonSaveVars

\* onSave up to the await: if (saving) return; setSaving(true);
\* invoke("force_save")
onSaveClicked ==
    /\ saveCount < MaxSaves
    /\ ~saving
    /\ saving' = TRUE
    /\ saveCount' = saveCount + 1
    /\ saveFlight' = saveFlight + 1
    /\ saveLog' = IF saveVersion = "v3" THEN "started" ELSE saveLog
    /\ UNCHANGED <<saveVersion, saveTimers>>
    /\ UNCHANGED nonSaveVars

\* force_save answered or rejected: the log line, then the finally:
\* setTimeout(() => setSaving(false), 8000) in v3, setSaving(false) in v5
onSaveSettled ==
    /\ saveFlight > 0
    /\ saveFlight' = saveFlight - 1
    /\ \E ok \in BOOLEAN : saveLog' = IF ok THEN "dispatched" ELSE "failed"
    /\ IF saveVersion = "v3"
          THEN saveTimers' = saveTimers + 1 /\ saving' = saving
          ELSE saveTimers' = saveTimers /\ saving' = FALSE
    /\ UNCHANGED <<saveVersion, saveCount>>
    /\ UNCHANGED nonSaveVars

\* the 8 seconds are over: setSaving(false)
SaveTimerFired ==
    /\ saveTimers > 0
    /\ saveTimers' = saveTimers - 1
    /\ saving' = FALSE
    /\ UNCHANGED <<saveVersion, saveCount, saveFlight, saveLog>>
    /\ UNCHANGED nonSaveVars

----------------------------------------------------------------------------
(* The pages of the earlier client: save.ts, kick.ts, playerlist.ts,       *)
(* login.ts, the info page (part_005) and main.ts. The backend's           *)
(* store_server_info and get_server_info (src-tauri) are not among the     *)
(* sources: the order in which it handles two invocations is left open     *)

MaxLogins == 2         \* clicks on the login button

EntryPages == {"save", "kick", "players", "login", "info", "main"}
\* the pages that begin with invoke("get_server_info")
StoredInfoPages == {"save", "kick", "players"}
\* the pages that run the connection check of lines 17-32
CheckedPages == StoredInfoPages \cup {"info"}

\* what fetch does with a page's request
PageFetches == { f \in FetchOutcomes : f.status \in {0, 200, 401} }

StartPc(name) == IF name \in StoredInfoPages THEN "asking" ELSE "start"

PagesIdle ==
    /\ pgName = "none" /\ pgPc = "none" /\ pgCreds = "unset"
    /\ pgCheck = 0 /\ pgStatus = 0 /\ pgRead = 0 /\ pgRequests = {}
    /\ pgShown = "none" /\ pgRedirect = FALSE /\ pgRaised = "none"
    /\ pgRemember = FALSE /\ pgLogins = 0
    /\ beStored = "none" /\ beQueue = <<>> /\ iniFile = "absent"

LastIdle == SaveIdle /\ PagesIdle
LaterIdle == PollIdle /\ BackupIdle /\ GatewayIdle /\ RefreshIdle /\ LastIdle

\* a page is opened: the session may hold the server info of an earlier
\* login, and the ini file may have been written by an earlier run
PagesStart ==
    /\ pgName \in EntryPages /\ pgPc = StartPc(pgName) /\ pgCreds = "unset"
    /\ pgCheck = 0 /\ pgStatus = 0 /\ pgRead = 0 /\ pgRequests = {}
    /\ pgShown = "none" /\ pgRedirect = FALSE /\ pgRaised = "none"
    /\ pgRemember = FALSE /\ pgLogins = 0
    /\ beStored \in {"none", "typed"} /\ beQueue = <<>>
    /\ iniFile \in {"absent", "default", "custom"}

\* window.location.href = "/info/" has taken effect: the info page's script
\* starts
FreshPage(name) ==
    /\ pgName' = name /\ pgPc' = StartPc(name) /\ pgCreds' = "unset"
    /\ pgCheck' = 0 /\ pgStatus' = 0 /\ pgRead' = 0 /\ pgRequests' = {}
    /\ pgShown' = "none" /\ pgRedirect' = FALSE /\ pgRaised' = "none"

\* fetch on "http://:/v1/api/..." (the stored info was "::") throws
Fetched(f) == f \in PageFetches /\ (pgCreds' = "empty" => f.kind = "rejects")

\* the requests sent so far, with one more
Issue(reqs) == pgRequests' = IF pgCreds' = "empty" THEN pgRequests ELSE pgRequests \cup reqs

\* checkConnection: the status, 400 from its catch
CheckStatus(f) == IF f.kind = "rejects" THEN 400 ELSE f.status

\* a caller of GetApiRequestResponse that reads a field of the result:
\* the error that leaves it, "none" when the body arrived
ReadRaised(f) ==
    IF f.kind = "rejects" THEN "FetchError"
    ELSE IF f.status # 200 THEN "TypeError"
    ELSE IF ~f.json THEN "SyntaxError"
    ELSE "none"

\* what the script does after the connection check
AfterCheck(name) ==
    CASE name = "save" -> [req |-> "POST announce", pc |-> "announcing"]
      [] name = "kick" -> [req |-> "GET players", pc |-> "populating"]
      [] name = "players" -> [req |-> "GET players", pc |-> "displaying"]
      [] name = "info" -> [req |-> "GET info", pc |-> "displaying"]

\* invoke("get_server_info") answered: "::" assigns the redirect and the
\* script goes on; the three parts are stored and checkConnection is called
ServerInfoAnswered ==
    /\ pgName \in CheckedPages /\ pgPc = "asking"
    /\ pgRedirect' = (pgRedirect \/ beStored = "none")
    /\ pgCreds' = IF beStored = "none" THEN "empty" ELSE beStored
    /\ Issue({"GET info"})
    /\ pgPc' = "checking"
    /\ UNCHANGED <<pgName, pgCheck, pgStatus, pgRead, pgShown, pgRaised, pgRemember,
                   pgLogins, beStored, beQueue, iniFile>>
    /\ UNCHANGED nonPageVars

\* checkConnection answered: a status other than 200 assigns the redirect
\* and the script goes on to what the page is for
ConnectionChecked ==
    /\ pgName \in CheckedPages /\ pgPc = "checking"
    /\ pgCreds' = pgCreds
    /\ \E f \in PageFetches :
          /\ Fetched(f)
          /\ pgCheck' = CheckStatus(f)
    /\ pgRedirect' = (pgRedirect \/ pgCheck' # 200)
    /\ Issue({AfterCheck(pgName).req})
    /\ pgPc' = AfterCheck(pgName).pc
    /\ UNCHANGED <<pgName, pgStatus, pgRead, pgShown, pgRaised, pgRemember,
                   pgLogins, beStored, beQueue, iniFile>>
    /\ UNCHANGED nonPageVars

\* the navigation to /login/ takes effect: the page's script is gone
PageUnloads ==
    /\ pgName \in CheckedPages /\ pgRedirect /\ pgPc \notin {"unloaded", "checking", "asking"}
    /\ pgPc' = "unloaded"
    /\ UNCHANGED <<pgName, pgCreds, pgCheck, pgStatus, pgRead, pgRequests, pgShown,
                   pgRedirect, pgRaised, pgRemember, pgLogins, beStored, beQueue, iniFile>>
    /\ UNCHANGED nonPageVars

\* save(): the announce POST answered, the /save POST is sent
SaveAnnounced ==
    /\ pgName = "save" /\ pgPc = "announcing"
    /\ pgCreds' = pgCreds
    /\ \E f \in PageFetches :
          /\ Fetched(f)
          /\ IF f.kind = "rejects"
                THEN pgRaised' = "FetchError" /\ pgPc' = "done" /\ pgRequests' = pgRequests
                ELSE pgRaised' = pgRaised /\ pgPc' = "saving" /\ Issue({"POST save"})
    /\ UNCHANGED <<pgName, pgCheck, pgStatus, pgRead, pgShown, pgRedirect, pgRemember,
                   pgLogins, beStored, beQueue, iniFile>>
    /\ UNCHANGED nonPageVars

\* the POST of the page's action answered: responseStatus == 200 shows the
\* success message, any other status the failure message
ActionAnswered ==
    /\ pgName \in {"save", "kick"}
    /\ pgPc = IF pgName = "save" THEN "saving" ELSE "kicking"
    /\ pgCreds' = pgCreds
    /\ \E f \in PageFetches :
          /\ Fetched(f)
          /\ IF f.kind = "rejects"
                THEN pgRaised' = "FetchError" /\ UNCHANGED <<pgStatus, pgShown>>
                ELSE /\ pgRaised' = pgRaised
                     /\ pgStatus' = f.status
                     /\ pgShown' = IF f.status = 200 THEN "success" ELSE "failure"
    /\ pgPc' = "done"
    /\ UNCHANGED <<pgName, pgCheck, pgRead, pgRequests, pgRedirect, pgRemember,
                   pgLogins, beStored, beQueue, iniFile>>
    /\ UNCHANGED nonPageVars

\* populateDropdown: GetApiRequestResponse("players") answered, then
\* json.players.length is read
populateDropdown ==
    /\ pgName = "kick" /\ pgPc = "populating"
    /\ pgCreds' = pgCreds
    /\ \E f \in PageFetches :
          /\ Fetched(f)
          /\ pgRead' = f.status
          /\ pgRaised' = ReadRaised(f)
    /\ pgPc' = "ready"
    /\ UNCHANGED <<pgName, pgCheck, pgStatus, pgRequests, pgShown, pgRedirect,
                   pgRemember, pgLogins, beStored, beQueue, iniFile>>
    /\ UNCHANGED nonPageVars

\* kickPlayer up to the await: "-1" asks for a selection, a player (one
\* the dropdown lists) sends the /kick POST
kickPlayer ==
    /\ pgName = "kick" /\ pgPc = "ready"
    /\ pgCreds' = pgCreds
    /\ \E player \in {"-1", "p1"} :
          /\ player # "-1" => pgRead = 200 /\ pgRaised = "none"
          /\ IF player = "-1"
                THEN pgShown' = "select" /\ pgPc' = pgPc /\ pgRequests' = pgRequests
                ELSE pgShown' = pgShown /\ pgPc' = "kicking" /\ Issue({"POST kick"})
    /\ UNCHANGED <<pgName, pgCheck, pgStatus, pgRead, pgRedirect, pgRaised, pgRemember,
                   pgLogins, beStored, beQueue, iniFile>>
    /\ UNCHANGED nonPageVars

\* displayPlayers, displayServerInfo and main.ts's Info:
\* GetApiRequestResponse answered, then a field of json is read
displayPlayers ==
    /\ pgName \in {"players", "info", "main"} /\ pgPc = "displaying"
    /\ pgCreds' = pgCreds
    /\ \E f \in PageFetches :
          /\ Fetched(f)
          /\ pgRead' = f.status
          /\ pgRaised' = ReadRaised(f)
          /\ pgShown' = IF ReadRaised(f) = "none" THEN "content" ELSE pgShown
          /\ pgPc' = IF pgName = "main" /\ ReadRaised(f) = "none" THEN "ready" ELSE "done"
    /\ UNCHANGED <<pgName, pgCheck, pgStatus, pgRequests, pgRedirect,
                   pgRemember, pgLogins, beStored, beQueue, iniFile>>
    /\ UNCHANGED nonPageVars

\* main.ts that creates the ini file and goes on
CheckConfigExistsNoExit ==
    /\ pgName = "main" /\ pgPc = "start"
    /\ iniFile' = IF iniFile = "absent" THEN "default" ELSE iniFile
    /\ pgCreds' = IF iniFile = "absent" THEN "unset" ELSE "ini"
    /\ Issue({"GET info"})
    /\ pgPc' = "displaying"
    /\ UNCHANGED <<pgRaised, pgName, pgCheck, pgStatus, pgRead, pgShown, pgRedirect,
                   pgRemember, pgLogins, beStored, beQueue>>
    /\ UNCHANGED nonPageVars

\* main.ts on DOMContentLoaded: CheckConfigExists creates the ini file with
\* the defaults and exits, or ReadIniFile reads ip, port and password and
\* Info() sends its GET
CheckConfigExists ==
    /\ pgName = "main" /\ pgPc = "start"
    /\ \E ok \in BOOLEAN :
          IF iniFile = "absent"
             THEN /\ iniFile' = IF ok THEN "default" ELSE iniFile
                  /\ pgPc' = IF ok THEN "exited" ELSE "done"
                  /\ pgRaised' = IF ok THEN pgRaised ELSE "FsError"
                  /\ UNCHANGED <<pgCreds, pgRequests>>
             ELSE /\ iniFile' = iniFile
                  /\ pgCreds' = IF ok THEN "ini" ELSE pgCreds
                  /\ pgPc' = IF ok THEN "displaying" ELSE "done"
                  /\ pgRaised' = IF ok THEN pgRaised ELSE "IniError"
                  /\ IF ok THEN Issue({"GET info"}) ELSE pgRequests' = pgRequests
    /\ UNCHANGED <<pgName, pgCheck, pgStatus, pgRead, pgShown, pgRedirect,
                   pgRemember, pgLogins, beStored, beQueue>>
    /\ UNCHANGED nonPageVars

\* main.ts's Save: "Saved the server!" is shown, then the two POSTs are
\* sent and not awaited
Save ==
    /\ pgName = "main" /\ pgPc = "ready"
    /\ pgShown' = "success"
    /\ pgCreds' = pgCreds
    /\ Issue({"POST announce", "POST save"})
    /\ pgPc' = "saving"
    /\ UNCHANGED <<pgName, pgCheck, pgStatus, pgRead, pgRedirect, pgRaised, pgRemember,
                   pgLogins, beStored, beQueue, iniFile>>
    /\ UNCHANGED nonPageVars

\* main.ts's SendApiRequest("save", ""): the status is logged to the console
SaveAnswered ==
    /\ pgName = "main" /\ pgPc = "saving"
    /\ \E f \in PageFetches :
          /\ pgStatus' = f.status
          /\ pgRaised' = IF f.kind = "rejects" THEN "FetchError" ELSE pgRaised
    /\ pgPc' = "done"
    /\ UNCHANGED <<pgName, pgCreds, pgCheck, pgRead, pgRequests, pgShown, pgRedirect,
                   pgRemember, pgLogins, beStored, beQueue, iniFile>>
    /\ UNCHANGED nonPageVars

\* login() up to the await of checkConnection
login ==
    /\ pgName = "login" /\ pgPc = "start"
    /\ pgLogins < MaxLogins
    /\ pgLogins' = pgLogins + 1
    /\ \E checked \in BOOLEAN : pgRemember' = checked
    /\ pgCreds' = "typed"
    /\ Issue({"GET info"})
    /\ pgPc' = "checking"
    /\ UNCHANGED <<pgName, pgCheck, pgStatus, pgRead, pgShown, pgRedirect, pgRaised,
                   beStored, beQueue, iniFile>>
    /\ UNCHANGED nonPageVars

\* a login() that stores the server info whatever the check returned
LoginCheckedNoReturn ==
    /\ pgName = "login" /\ pgPc = "checking"
    /\ \E f \in PageFetches :
          /\ pgCheck' = CheckStatus(f)
          /\ beQueue' = Append(beQueue, pgCreds)
          /\ pgShown' = IF pgCheck' # 200 THEN "error" ELSE pgShown
          /\ IF pgRemember
                THEN /\ pgPc' = "writing"
                     /\ UNCHANGED <<pgName, pgCreds, pgStatus, pgRead, pgRequests,
                                    pgRedirect, pgRaised>>
                ELSE /\ pgName' = "info" /\ pgPc' = "start"
                     /\ UNCHANGED <<pgCreds, pgStatus, pgRead, pgRequests,
                                    pgRedirect, pgRaised>>
    /\ UNCHANGED <<pgRemember, pgLogins, beStored, iniFile>>
    /\ UNCHANGED nonPageVars

\* login() after the check: the error and return, or
\* invoke("store_server_info") without await, then createConfigFile when
\* the checkbox is checked, else the navigation to /info/
LoginChecked ==
    /\ pgName = "login" /\ pgPc = "checking"
    /\ \E f \in PageFetches :
          IF CheckStatus(f) # 200
             THEN /\ pgCheck' = CheckStatus(f)
                  /\ pgShown' = "error"
                  /\ pgPc' = "start"
                  /\ UNCHANGED <<pgName, pgCreds, pgStatus, pgRead, pgRequests,
                                 pgRedirect, pgRaised, beQueue>>
             ELSE /\ beQueue' = Append(beQueue, pgCreds)
                  /\ IF pgRemember
                        THEN /\ pgCheck' = CheckStatus(f)
                             /\ pgPc' = "writing"
                             /\ UNCHANGED <<pgName, pgCreds, pgStatus, pgRead, pgRequests,
                                            pgShown, pgRedirect, pgRaised>>
                        ELSE FreshPage("info")
    /\ UNCHANGED <<pgRemember, pgLogins, beStored, iniFile>>
    /\ UNCHANGED nonPageVars

\* createConfigFile written, or its catch; then the navigation to /info/
createConfigFile ==
    /\ pgName = "login" /\ pgPc = "writing"
    /\ \E ok \in BOOLEAN : iniFile' = IF ok THEN "custom" ELSE iniFile
    /\ FreshPage("info")
    /\ UNCHANGED <<pgRemember, pgLogins, beStored, beQueue>>
    /\ UNCHANGED nonPageVars

\* the info page on DOMContentLoaded: when the ini file exists its values
\* are read and invoke("store_server_info") is called without await; then
\* invoke("get_server_info") is called
InfoStarted ==
    /\ pgName = "info" /\ pgPc = "start"
    /\ IF iniFile # "absent"
          THEN pgCreds' = "ini" /\ beQueue' = Append(beQueue, "ini")
          ELSE UNCHANGED <<pgCreds, beQueue>>
    /\ pgPc' = "asking"
    /\ UNCHANGED <<pgName, pgCheck, pgStatus, pgRead, pgRequests, pgShown, pgRedirect,
                   pgRaised, pgRemember, pgLogins, beStored, iniFile>>
    /\ UNCHANGED nonPageVars

\* the backend handles a store_server_info
BackendStores ==
    /\ beQueue # <<>>
    /\ beStored' = Head(beQueue)
    /\ beQueue' = Tail(beQueue)
    /\ UNCHANGED <<pgName, pgPc, pgCreds, pgCheck, pgStatus, pgRead, pgRequests, pgShown,
                   pgRedirect, pgRaised, pgRemember, pgLogins, iniFile>>
    /\ UNCHANGED nonPageVars

----------------------------------------------------------------------------
(* The restart-times parser applied to every input of a bounded set *)

MaxItems == 3

ItemTexts ==
    { <<"0","3",":","0","0">>,
      <<"3",":","0","0">>,
      <<" ","2","1",":","3","0"," ">>,
      <<"9",":","5">>,
      <<"2","4",":","0","0">>,
      <<"1","2",":","6","0">>,
      <<"9","9",":","9","9">>,
      <<"0","0","3",":","0","0">>,
      <<"a",":","0","0">>,
      <<" ">> }

TimesStart ==
    /\ rtItems \in UNION { [1..n -> ItemTexts] : n \in 0..MaxItems }
    /\ rtInput = Join(rtItems, <<",">>)
    /\ rtResult = PendingList

\* the parts of the state a specification leaves alone
TimesIdle == rtItems = <<>> /\ rtInput = <<>> /\ rtResult = PendingList
UrlIdle ==
    /\ urlParts = [ lead |-> <<>>, scheme |-> <<>>, host |-> <<>>, port |-> <<>>,
                    path |-> <<>>, slashes |-> 0, query |-> <<>> ]
    /\ urlInput = <<>> /\ urlResult = Pending /\ urlAgain = Pending

TimesInit == TimesStart /\ UrlIdle /\ DashIdle /\ AutoIdle /\ ConfigIdle /\ LaterIdle

ParseTimes ==
    /\ rtResult = PendingList
    /\ rtResult' = parseRestartTimes(rtInput)
    /\ UNCHANGED <<rtItems, rtInput>>
    /\ UNCHANGED nonTimesVars

TimesNext == ParseTimes

SpecTimes == TimesInit /\ [][TimesNext]_vars

UrlNext == NormalizeUrl \/ RenormalizeUrl

UrlInit == UrlStart /\ TimesIdle /\ DashIdle /\ AutoIdle /\ ConfigIdle /\ LaterIdle

SpecUrl == UrlInit /\ [][UrlNext]_vars

\* the dashboard over a saved record that names a server
DashDisks == { c \in DiskConfigs : c.base_url = UrlNormal /\ c.password = Null
                                    /\ c.restart_times = NullList /\ c.start_cmd = Null
                                    /\ c.allow_actions = "false" }
DashConfigStart == ConfigStart /\ diskCfg \in DashDisks

Init == DashIdle /\ TimesIdle /\ UrlIdle /\ AutoIdle /\ DashConfigStart /\ LaterIdle

Next ==
    \/ MountConfigLoaded \/ MountConfigFailed \/ MountApplied
    \/ OpenSettings \/ CloseSettings \/ ToggleAllowActions
    \/ OpenBackups \/ CloseBackups \/ BackupNow
    \/ OpenBroadcast \/ CloseBroadcast \/ EditBroadcast \/ onBroadcast
    \/ onSave \/ refreshAll \/ onKick \/ onBan
    \/ OpenTimeModal \/ CloseTimeModal \/ ConfirmTimeModal \/ RestartAnswered
    \/ CancelRestart \/ CancelAnswered \/ CountdownTick
    \/ BackendTick \/ BackendFire

Spec == Init /\ [][Next]_vars

\* the restart sequence alone: the page with actions allowed
RestartNext ==
    \/ OpenTimeModal \/ CloseTimeModal \/ ConfirmTimeModal \/ RestartAnswered
    \/ CancelRestart \/ CancelAnswered \/ CountdownTick
    \/ BackendTick \/ BackendFire \/ BackendLaunch

RestartInit == DashIdle /\ TimesIdle /\ UrlIdle /\ AutoIdle /\ ConfigIdle /\ LaterIdle

SpecRestart == RestartInit /\ [][RestartNext]_vars

\* the one-second interval of the countdown effect keeps firing while the
\* countdown is shown, and an invoke is answered or rejected
SpecRestartFair ==
    /\ RestartInit /\ [][RestartNext]_vars
    /\ WF_vars(CountdownTick) /\ WF_vars(RestartAnswered) /\ WF_vars(CancelAnswered)

\* the Auto-Restart panel and the Scheduler
SchedInit == AutoIdle /\ DashIdle /\ TimesIdle /\ UrlIdle /\ ConfigIdle /\ LaterIdle

SchedNext ==
    \/ onStartAuto \/ onStopAuto \/ SchedulerStart \/ SchedulerStop
    \/ TimerFire \/ TimerCallDone \/ AutoAnswered

SpecSched == SchedInit /\ [][SchedNext]_vars

\* the settings: load, edit, Apply
ConfigInit == ConfigStart /\ DashIdle /\ TimesIdle /\ UrlIdle /\ AutoIdle /\ LaterIdle

ConfigNext ==
    \/ MountConfigLoaded \/ MountConfigFailed \/ MountApplied
    \/ OpenSettings \/ CloseSettings \/ ToggleAllowActions
    \/ OpenBackups \/ CloseBackups
    \/ EditBaseUrl \/ EditPassword \/ EditStartCmd \/ EditRestartTimes
    \/ EditBackupDir \/ EditBackupDestDir
    \/ applySettings \/ ApplyAnswered \/ ApplyRefreshed

SpecConfig == ConfigInit /\ [][ConfigNext]_vars

\* the polling dashboard
PollInit ==
    PollIdle /\ BackupIdle /\ GatewayIdle /\ RefreshIdle /\ LastIdle /\ DashIdle /\ TimesIdle /\ UrlIdle /\ AutoIdle /\ ConfigIdle

PollNext ==
    \/ PollMount \/ PollTick \/ PollInfoAnswered \/ PollPlayersAnswered
    \/ PollDurationsAnswered \/ PollUnmount

SpecPoll == PollInit /\ [][PollNext]_vars

\* the Backups modal and the Backup Engine
BackupInit ==
    BackupStart /\ PollIdle /\ GatewayIdle /\ RefreshIdle /\ LastIdle /\ DashIdle /\ TimesIdle /\ UrlIdle /\ AutoIdle /\ ConfigIdle

BackupNext ==
    \/ OpenSettings \/ OpenBackups \/ EditBackupDir
    \/ BackupNowInvoked \/ BackupRun \/ BackupLogged \/ DayPasses

SpecBackup == BackupInit /\ [][BackupNext]_vars

\* the HTTP helpers applied to every outcome of the request
GatewayInit ==
    /\ GatewayStart /\ PollIdle /\ BackupIdle /\ RefreshIdle /\ LastIdle
    /\ DashIdle /\ TimesIdle /\ UrlIdle /\ AutoIdle /\ ConfigIdle

GatewayNext == CallGetApiRequestResponse \/ CallSendApiRequest \/ CallCheckConnection

SpecGateway == GatewayInit /\ [][GatewayNext]_vars

\* the start of the dashboard and its refreshes
RefreshInit ==
    /\ DashConfigStart /\ RefreshIdle /\ PollIdle /\ BackupIdle /\ GatewayIdle /\ LastIdle
    /\ DashIdle /\ TimesIdle /\ UrlIdle /\ AutoIdle

RefreshNext ==
    \/ MountConfigLoaded \/ MountConfigFailed \/ MountApplied
    \/ RefreshClick \/ PeriodicTick \/ RefreshInfoAnswered \/ RefreshPlayersAnswered
    \/ ClockTick

SpecRefresh == RefreshInit /\ [][RefreshNext]_vars

\* Force Save
SaveInit ==
    /\ SaveStart /\ PagesIdle /\ RefreshIdle /\ PollIdle /\ BackupIdle /\ GatewayIdle
    /\ DashIdle /\ TimesIdle /\ UrlIdle /\ AutoIdle /\ ConfigIdle

SaveNext == onSaveClicked \/ onSaveSettled \/ SaveTimerFired

\* a force_save settles (the REST call times out at the latest), and a
\* timeout set fires
SpecSave ==
    /\ SaveInit /\ [][SaveNext]_vars
    /\ WF_vars(onSaveSettled) /\ WF_vars(SaveTimerFired)

\* the pages of the earlier client
PagesInit ==
    /\ PagesStart /\ SaveIdle /\ RefreshIdle /\ PollIdle /\ BackupIdle /\ GatewayIdle
    /\ DashIdle /\ TimesIdle /\ UrlIdle /\ AutoIdle /\ ConfigIdle

PagesNext ==
    \/ ServerInfoAnswered \/ ConnectionChecked \/ PageUnloads
    \/ SaveAnnounced \/ ActionAnswered \/ populateDropdown \/ kickPlayer
    \/ displayPlayers \/ CheckConfigExists \/ Save \/ SaveAnswered
    \/ login \/ LoginChecked \/ createConfigFile \/ InfoStarted \/ BackendStores

SpecPages == PagesInit /\ [][PagesNext]_vars

----------------------------------------------------------------------------
(* Claims about parseRestartTimes *)

Range(f) == { f[i] : i \in DOMAIN f }

\* t is five characters dd:dd
IsClockShape(t) ==
    /\ Len(t) = 5
    /\ IsDigit(t[1]) /\ IsDigit(t[2]) /\ t[3] = ":" /\ IsDigit(t[4]) /\ IsDigit(t[5])

ClockHour(t) == 10 * DigitVal(t[1]) + DigitVal(t[2])
ClockMinute(t) == 10 * DigitVal(t[4]) + DigitVal(t[5])

\* a zero-padded HH:MM string with HH in 00..23 and MM in 00..59
IsValidClock(t) == IsClockShape(t) /\ ClockHour(t) <= 23 /\ ClockMinute(t) <= 59

MinuteOfDay(t) == 60 * ClockHour(t) + ClockMinute(t)

\* What the user typed in an entry, white space aside: one or two digits,
\* a colon, two digits; and the numbers it then names.
TypedEntry(i) == Trim(rtItems[i])
TypedHasShape(i) ==
    LET s == TypedEntry(i) IN
    \/ Len(s) = 4 /\ IsDigit(s[1]) /\ s[2] = ":" /\ IsDigit(s[3]) /\ IsDigit(s[4])
    \/ IsClockShape(s)
TypedHour(i) ==
    LET s == TypedEntry(i) IN
    IF Len(s) = 4 THEN DigitVal(s[1]) ELSE 10 * DigitVal(s[1]) + DigitVal(s[2])
TypedMinute(i) ==
    LET s == TypedEntry(i) IN 10 * DigitVal(s[Len(s) - 1]) + DigitVal(s[Len(s)])
TypedInRange(i) == TypedHour(i) <= 23 /\ TypedMinute(i) <= 59

ExampleItems == << <<"0","3",":","0","0">>, <<"0","3",":","0","0">>, <<"9",":","5">> >>

\* C4: for every comma-separated input, parseRestartTimes returns a list
\* that is sorted ascending, has no duplicates, and whose every entry is a
\* zero-padded HH:MM string with HH in 00..23 and MM in 00..59.
C4_ParsedTimesSortedUniqueValid ==
    rtResult # PendingList =>
        /\ \A i \in 1..Len(rtResult) : IsValidClock(rtResult[i])
        /\ \A i \in 1..(Len(rtResult) - 1) :
               MinuteOfDay(rtResult[i]) < MinuteOfDay(rtResult[i + 1])

\* C4 witness: three entries typed out of order, two of them naming the same
\* time, parsed to the two times in ascending order.
C4_Witness ==
    /\ rtItems = << <<" ","2","1",":","3","0"," ">>, <<"0","3",":","0","0">>, <<"3",":","0","0">> >>
    /\ rtResult = << <<"0","3",":","0","0">>, <<"2","1",":","3","0">> >>

\* C5 as stated: every entry that is not a valid 24-hour HH:MM value (wrong
\* shape, or hour above 23, or minute above 59) contributes no entry, and
\* the valid entries are all accepted.
C5_InvalidEntriesDropped ==
    rtResult # PendingList =>
        /\ \A t \in Range(rtResult) :
               \E i \in DOMAIN rtItems :
                   /\ TypedHasShape(i) /\ TypedInRange(i)
                   /\ ClockHour(t) = TypedHour(i) /\ ClockMinute(t) = TypedMinute(i)
        /\ \A i \in DOMAIN rtItems :
               TypedHasShape(i) /\ TypedInRange(i) =>
                   \E t \in Range(rtResult) :
                       ClockHour(t) = TypedHour(i) /\ ClockMinute(t) = TypedMinute(i)

\* C5 amended: an entry of the wrong shape contributes no entry; an entry of
\* the right shape contributes its time with the hour lowered to 23 and the
\* minute lowered to 59 when they are above; and 03:00, 03:00, 9:5 parses
\* to 03:00 alone.
C5_MalformedDroppedOutOfRangeClamped ==
    rtResult # PendingList =>
        /\ \A t \in Range(rtResult) :
               \E i \in DOMAIN rtItems :
                   /\ TypedHasShape(i)
                   /\ ClockHour(t) = Min(TypedHour(i), 23)
                   /\ ClockMinute(t) = Min(TypedMinute(i), 59)
        /\ \A i \in DOMAIN rtItems :
               TypedHasShape(i) =>
                   \E t \in Range(rtResult) :
                       /\ ClockHour(t) = Min(TypedHour(i), 23)
                       /\ ClockMinute(t) = Min(TypedMinute(i), 59)
        /\ rtItems = ExampleItems => rtResult = << <<"0","3",":","0","0">> >>

\* C5 witness: the example, parsed: the duplicate collapsed and 9:5 dropped.
C5_Witness ==
    /\ rtItems = ExampleItems
    /\ rtResult = << <<"0","3",":","0","0">> >>

----------------------------------------------------------------------------
(* Claims about normalizeBaseUrl *)

UrlDone == urlResult \notin {Pending, Failure}

\* The returned string read as text: what follows "://", the authority in
\* it, the digits after the authority's colon, and the path up to a "?".
ResultRest == DropFirst(urlResult, FirstOf(urlResult, {":"}, 1) + 2)
ResultAuthority == SubSeq(ResultRest, 1, FirstOf(ResultRest, {"/", "?"}, 1) - 1)
ResultPort == DropFirst(ResultAuthority, FirstOf(ResultAuthority, {":"}, 1))
ResultPath ==
    LET fromPath == DropFirst(ResultRest, Len(ResultAuthority))
    IN  SubSeq(fromPath, 1, FirstOf(fromPath, {"?"}, 1) - 1)

ResultHasPort == ResultPort # <<>> /\ \A i \in 1..Len(ResultPort) : IsDigit(ResultPort[i])

\* the port the user typed, without its colon ("" when none was typed)
TypedPort == IF urlParts.port = <<>> THEN <<>> ELSE Tail(urlParts.port)

C7_NormalizeIdempotent ==
    urlAgain # Pending => urlAgain = urlResult

\* C7 witness: an input the normaliser changed, normalised a second time
C7_Witness ==
    /\ urlAgain \notin {Pending, Failure}
    /\ urlResult # Trim(urlInput)
    /\ urlParts.path = <<"/","x">>

\* C8: the default port is applied only when the input names no port: an
\* explicit port, 80 with http and 443 with https included, is the port of
\* the result.
C8_ExplicitPortKept ==
    (UrlDone /\ TypedPort # <<>>) => ResultPort = TypedPort

----------------------------------------------------------------------------
(* Claims about the dashboard *)

\* C1: while the allow-actions flag is false, no mutating operation
\* (broadcast, save, kick, ban, shutdown, restart, cancel, backup-now) reaches
\* the backend: every mutating command invoked was invoked with the flag
\* true.
C1_ReadOnlyBlocksMutations ==
    lastInvoke.kind = "mutating" => lastInvoke.allow

C3_OneLoopPerTimerKind ==
    \A k \in TimerKinds :
        Cardinality(ActiveLoops(k)) = (IF schedState = "Running" THEN 1 ELSE 0)

\* a second start was answered while the Scheduler was Running and a
\* timer's call was in flight
C3_Witness ==
    /\ schedState = "Running"
    /\ \E call \in autoCalls : call.cmd = "start_auto_restart" /\ call.dup
    /\ \E l \in timerLoops : l.busy
    /\ \A k \in TimerKinds : Cardinality(ActiveLoops(k)) = 1

----------------------------------------------------------------------------
(* Claims about the settings *)

\* a base URL with a scheme, a port and the /v1/api suffix: what
\* normalizeBaseUrl returns for it is the text itself
IsNormalBaseUrl(u) == u # Null /\ normalizeBaseUrl(u) = u

\* C9: every set_config the dashboard invokes carries a normalised base
\* URL, on the Apply path and on the load-from-disk path alike.
C9_SetConfigCarriesNormalUrl ==
    lastPayload.sent => IsNormalBaseUrl(lastPayload.base_url)

\* C10: once an update is made, the settings the dashboard shows equal the
\* record that update submitted, field for field: base URL, password,
\* restart times, start command, backup source, backup destination and
\* the allow-actions flag.
C10_UpdateReplacesWholeRecord ==
    observed.done =>
        /\ observed.cfg.base_url = observed.payload.base_url
        /\ OrNull(observed.cfg.password) = observed.payload.password
        /\ observed.cfg.restart_times = observed.payload.restart_times
        /\ OrNull(observed.cfg.start_cmd) = observed.payload.start_cmd
        /\ OrNull(observed.cfg.backup_dir) = observed.payload.backup_dir
        /\ OrNull(observed.cfg.backup_dest_dir) = observed.payload.backup_dest_dir
        /\ FlagText(observed.allowActions) = observed.payload.allow_actions

\* the Apply button is clicked (one more click counted) with a Server URL
\* that new URL cannot parse
ApplyClickedOnBadUrl ==
    /\ typed'.applies = typed.applies + 1
    /\ normalizeBaseUrl(Trim(OrEmpty(Trim(cfg.base_url)))) = Failure

\* C11: an Apply whose base URL cannot be parsed into a URL ends in the
\* "Apply failed" report and changes nothing: no set_config is invoked, and
\* cfg and the last-applied snapshot keep their values.
C11_BadUrlApplyChangesNothing ==
    [][ApplyClickedOnBadUrl =>
          /\ pendingApply'.state = "threw"
          /\ UNCHANGED <<lastPayload, cfg, lastAppliedRef, observed, restartTimesText>>]_vars

\* an unparseable URL was typed over an applied configuration, and Apply
\* reported the failure
C11_Witness ==
    /\ pendingApply.state = "threw"
    /\ cfg.base_url = UrlBad
    /\ lastAppliedRef # <<>>
    /\ lastPayload.path = "mount"

----------------------------------------------------------------------------
(* Claims about the restart sequence *)

\* C12: a restart runs its steps in order: the warning is broadcast first,
\* the shutdown call is dispatched only when the whole lead time has been
\* counted down second by second, and the start command is launched only
\* after the shutdown call.
C12_RestartStepsInOrder ==
    [][ /\ \A id \in beShutdown' \ beShutdown :
              /\ id \in beWarned
              /\ bePending.active /\ bePending.id = id /\ bePending.remaining = 0
        /\ \A id \in beLaunched' \ beLaunched : id \in beShutdown
        /\ (bePending.active /\ bePending'.active /\ bePending'.id = bePending.id)
              => bePending'.remaining \in {bePending.remaining, bePending.remaining - 1}
      ]_vars

\* one restart was warned, shut down and started again, and the next one
\* is in the middle of its countdown
C12_Witness ==
    /\ \E id \in beLaunched : id \in beShutdown /\ id \in beWarned
    /\ bePending.active /\ bePending.id \notin beShutdown
    /\ bePending.remaining > 0 /\ bePending.remaining < MaxLead

----------------------------------------------------------------------------
(* Claims about the Scheduler's timers *)

\* C13: a failed tick is recorded and never stops a loop: while the
\* Scheduler stays Running, a loop whose call ends, in success or in
\* failure, is there afterwards waiting for its next tick, and the loops
\* of the other timers are untouched.
C13_FailedTickKeepsLoops ==
    [][ \A l \in timerLoops :
          (l.busy /\ ~l.canceled /\ l \notin timerLoops'
                  /\ schedState = "Running" /\ schedState' = "Running")
             => /\ \E ok \in BOOLEAN :
                      [l EXCEPT !.busy = FALSE, !.failed = ~ok] \in timerLoops'
                /\ \A m \in timerLoops \ {l} : m \in timerLoops'
      ]_vars

\* a timer whose last tick failed has fired again, while another timer,
\* whose last tick failed too, waits for its next tick
C13_Witness ==
    /\ schedState = "Running"
    /\ \E l, m \in timerLoops :
          /\ l.kind # m.kind /\ ~l.canceled /\ ~m.canceled
          /\ l.failed /\ l.busy
          /\ m.failed /\ ~m.busy

\* a tick starts in this step: a loop that was waiting has a call in flight
TickStarts ==
    \E l \in timerLoops : ~l.busy /\ [l EXCEPT !.busy = TRUE] \in timerLoops'

\* the backend answers a request of this kind in this step
Answers(cmd) ==
    \E call \in autoCalls :
        /\ call.cmd = cmd /\ call.state = "sent"
        /\ \E a \in autoCalls' : a.id = call.id /\ a.state # "sent"

\* C14: a stop takes the Scheduler from Running to Stopped and cancels the
\* three loops: no tick starts while it is Stopped, no loop is active
\* then, and the state changes only Stopped -> Running on a start and
\* Running -> Stopped on a stop.
C14_StopCancelsAllLoops ==
    [][ /\ TickStarts => schedState = "Running"
        /\ schedState' = "Stopped" => \A l \in timerLoops' : l.canceled
        /\ schedState' # schedState =>
              \/ /\ schedState = "Stopped" /\ schedState' = "Running"
                 /\ Answers("start_auto_restart")
              \/ /\ schedState = "Running" /\ schedState' = "Stopped"
                 /\ Answers("stop_auto_restart")
      ]_vars

\* a stop was answered while a timer's call was in flight: the Scheduler
\* is Stopped and the canceled loop is finishing its call
C14_Witness ==
    /\ schedState = "Stopped"
    /\ \E call \in autoCalls : call.cmd = "stop_auto_restart" /\ call.state = "ok"
    /\ \E l \in timerLoops : l.canceled /\ l.busy

----------------------------------------------------------------------------
(* Claims about the dashboard's polling *)

\* C15: the ticks of one timer are strictly sequential: no call of
\* refresh starts while an earlier one is in flight, and what the page
\* shows was never written by an earlier refresh after a later one.
C15_PollTicksSequential ==
    /\ Cardinality(pollRuns) <= 1
    /\ \A run \in pollRuns : server <= run.id /\ polled.players <= run.id

----------------------------------------------------------------------------
(* Claims about the Backup Engine *)

\* a run has just returned success
BackupSucceeded == \E call \in bkCalls' \ bkCalls : call.state = "ok"

\* C16: a sweep deletes no archive younger than 3 days, and after the sweep of
\* a successful run every archive older than 3 days is gone, except those
\* whose own deletion failed: these stay, and stop no other deletion
C16_SweepDeletesOnlyStale ==
    [][ /\ \A a \in destArchives \ destArchives' : Stale(a, today)
        /\ BackupSucceeded =>
              \A a \in destArchives :
                  Stale(a, today) => (a \in destArchives' <=> a.locked) ]_vars

\* a run swept the destination: one stale archive could not be deleted and
\* stays, a later stale one was deleted, a young one stays
C16_Witness ==
    /\ \E call \in bkCalls : call.state = "ok" /\ 2 \in call.swept
    /\ \E a \in destArchives : a.name = 1 /\ a.locked /\ Stale(a, today)
    /\ \E a \in destArchives : a.name = 3 /\ ~Stale(a, today)

\* a run has just returned on a source directory that does not exist
BackupOnMissingSource ==
    \E call \in bkCalls :
        /\ call.state = "pending" /\ ~SourceFound(call)
        /\ \E done \in bkCalls' \ bkCalls : done.id = call.id

\* C17: backupNow on a source directory that does not exist returns IoError
\* and leaves the contents of the destination as they were
C17_MissingSourceIoError ==
    [][ BackupOnMissingSource =>
          /\ \A done \in bkCalls' \ bkCalls : done.state = "IoError"
          /\ destArchives' = destArchives ]_vars

\* Backup Now on a typed source folder that does not exist was answered
\* IoError and logged as failed, the destination holding what it held
C17_Witness ==
    /\ ~sourceExists /\ backupDir # <<>> /\ bkLog = "failed"
    /\ \E call \in bkCalls : call.state = "IoError" /\ call.src # Null
    /\ \A a \in destArchives : a.name <= Len(SeedAges)
    /\ destArchives # {}

----------------------------------------------------------------------------
(* Claims about the HTTP helpers *)

\* C20: whatever the HTTP call does, a network error or a timeout included,
\* SendApiRequest, GetApiRequestResponse and checkConnection return a value
\* to the caller and do not raise
C20_GatewayNeverThrows == gwResult.state # "raised"

----------------------------------------------------------------------------
(* Claims about refreshAll *)

\* C18: once refreshAll has seen a connection failure, no get_server_info and
\* no get_players is invoked through refreshAll before the 60-second hold
\* window has run out
C18_NoReadInsideHold == ~issued.held

\* C19: on start the saved settings are loaded and applied (set_config has
\* completed) before any server read is invoked
C19_AppliedBeforeReads ==
    issued.n > 0 => issued.mount = "applied" /\ issued.applied

----------------------------------------------------------------------------
(* Claims about the pages of the earlier client *)

\* C21: an action is shown as successful exactly when its POST returned
\* status 200, and as failed for every other status
C21_SuccessIffStatus200 ==
    /\ pgShown = "success" => pgStatus = 200
    /\ pgStatus \notin {0, 200} => pgShown = "failure"

\* main.ts has left CheckConfigExists
MainConfigChecked == pgName = "main" /\ pgPc = "start" /\ pgPc' # "start"

C23_Non200ReadHandled == pgRead \notin {0, 200} => pgRaised = "none"

\* C25: the save page sends its announce and /save POSTs only when stored
\* server info is present and the connection check returned 200; in every
\* other case it redirects to /login/ and sends no POST
C25_SavePostsOnlyWhenChecked ==
    (pgName = "save" /\ pgRequests \cap {"POST announce", "POST save"} # {})
        => (pgCreds # "empty" /\ pgCheck = 200 /\ ~pgRedirect)

\* login() has left the await of checkConnection
LoginAnswered == pgName = "login" /\ pgPc = "checking" /\ pgPc' # "checking"

\* C26: when the check returns anything but 200, login() shows the error,
\* invokes no store_server_info, writes no file and stays on the page; the
\* ini file is written only after a check that returned 200, with the
\* checkbox checked
C26_LoginStoresOnlyAfterCheck ==
    [][ /\ (LoginAnswered /\ beQueue' = beQueue) =>
              /\ pgShown' = "error" /\ pgCheck' # 200
              /\ pgName' = "login" /\ iniFile' = iniFile
        /\ (LoginAnswered /\ beQueue' # beQueue) =>
              (pgName' = "login" => pgCheck' = 200 /\ pgPc' = "writing")
        /\ (pgName = "login" /\ iniFile' # iniFile) =>
              pgCheck = 200 /\ pgRemember /\ pgPc = "writing" ]_vars

\* a login with the checkbox checked failed its check: the error is shown,
\* nothing is stored or queued, no file exists, the page is the login page
C26_Witness ==
    /\ pgName = "login" /\ pgPc = "start" /\ pgShown = "error" /\ pgRemember
    /\ pgCheck # 200 /\ pgCheck # 0
    /\ beQueue = <<>> /\ beStored = "none" /\ iniFile = "absent"

\* C27: the info page never reads "::" while a store_server_info issued
\* before its get_server_info exists: the store has taken effect first
C27_InfoSeesStoredInfo ==
    (pgName = "info" /\ pgCreds = "empty") => (beQueue = <<>> /\ beStored = "none")

-----------------------------------------------------------------------------
(* Claims about Force Save                                                 *)

\* C28: at most one force_save is in flight at any time; while one is in
\* flight, and in the dashboard with the 8 second timeout until that
\* timeout has fired, the saving flag is set, so a further click invokes
\* nothing; and a set flag is always cleared again, whether the save was
\* dispatched or failed
C28_OneSaveInFlight ==
    /\ [](/\ saveFlight <= 1
          /\ saveTimers <= 1
          /\ (saveFlight = 1 \/ saveTimers = 1) => saving
          /\ saving => ~ENABLED onSaveClicked)
    /\ (saving ~> ~saving)

\* a failed save of the dashboard with the timeout has settled, the flag
\* is still set and its timeout is pending
C28_Witness ==
    /\ saveVersion = "v3" /\ saveLog = "failed" /\ saving
    /\ saveFlight = 0 /\ saveTimers = 1 /\ saveCount > 1

-----------------------------------------------------------------------------
(* Claims about the join and leave lines of refreshAll                     *)

\* a refreshAll's get_players is answered or rejected in this step
PlayersSettled == \E run \in refreshRuns : run.pc = "players" /\ run \notin refreshRuns'

\* C29: when get_players succeeds, "Player joined" is logged for exactly
\* the ids of the new list that the remembered set lacks and "Player left"
\* for exactly the remembered ids the new list lacks, and the remembered
\* set becomes the new list; when it fails nothing is logged as joined or
\* left and the remembered set stays; nothing else changes the remembered set
C29_JoinedLeftAgainstRemembered ==
    [][ /\ (PlayersSettled /\ playerLog'.ok) =>
              /\ playerLog'.joined = playerLog'.list \ prevPlayersRef
              /\ playerLog'.left = prevPlayersRef \ playerLog'.list
              /\ prevPlayersRef' = playerLog'.list
        /\ (PlayersSettled /\ ~playerLog'.ok) =>
              /\ playerLog'.joined = {} /\ playerLog'.left = {}
              /\ prevPlayersRef' = prevPlayersRef
        /\ ~PlayersSettled => (prevPlayersRef' = prevPlayersRef /\ playerLog' = playerLog)
      ]_vars

\* a second list has been answered: one player joined, the one remembered
\* from the first list left
C29_Witness ==
    /\ playerLog.ok /\ playerLog.list = {"p2"}
    /\ playerLog.joined = {"p2"} /\ playerLog.left = {"p1"}
    /\ prevPlayersRef = {"p2"}

-----------------------------------------------------------------------------
(* Claims about the unmounting of the polling dashboard                    *)

\* C30: once the cleanup has run (stop is set, the interval is cleared) no
\* further call of refresh starts, and no answer of a refresh still in
\* flight is written to the server, players or durations state
C30_NothingWrittenAfterCleanup ==
    [][ stop => /\ pollCount' = pollCount
                /\ \A run \in pollRuns' : run.id \in { r.id : r \in pollRuns }
                /\ server' = server
                /\ polled' = polled
                /\ stop' /\ pollPc' = "cleaned" ]_vars

\* after the cleanup the get_server_info of a refresh in flight was
\* answered with success, and the server state is not that answer
C30_Witness ==
    /\ stop /\ pollPc = "cleaned"
    /\ \E run \in pollRuns : run.info = "dropped" /\ run.pc = "durations" /\ server # run.id

-----------------------------------------------------------------------------
(* Claims about the restart countdown                                      *)

\* the steps in which an invoke of the two handlers is answered
RestartAnsweredStep == restartReply.got /\ restartReply' = NoReply
CancelAnsweredStep == cancelReply.got /\ cancelReply' = NoReply

\* the countdown's one-second tick on s: null at 1 or below, else s - 1
Ticked(s) == IF s <= 1 THEN NoCountdown ELSE s - 1

\* C24: when restart_now has succeeded with lead time N the countdown is N;
\* when cancel_restart has succeeded it is null at once; apart from these
\* two the countdown changes only by a tick, which takes exactly 1 from it
\* or, at 1 or below, makes it null; it is never negative; and a countdown
\* shown becomes null eventually unless a restart is being requested
C24_CountdownRunsDown ==
    /\ [](restartCountdown = NoCountdown \/ restartCountdown \in 0..MaxLead)
    /\ [][ /\ (RestartAnsweredStep /\ restartReply.ok) =>
                 restartCountdown' = restartReply.seconds
           /\ (CancelAnsweredStep /\ cancelReply.ok) => restartCountdown' = NoCountdown
           /\ (/\ restartCountdown' # restartCountdown
               /\ ~(RestartAnsweredStep /\ restartReply.ok)
               /\ ~(CancelAnsweredStep /\ cancelReply.ok)) =>
                 /\ restartCountdown # NoCountdown
                 /\ restartCountdown' = Ticked(restartCountdown)
                 /\ restartCountdown' < restartCountdown
         ]_vars
    /\ (restartCountdown # NoCountdown) ~> (restartCountdown = NoCountdown \/ restartReply.got)

\* a restart with the longest lead time was answered and the countdown has
\* run down by one tick; no restart or cancel is being answered
C24_Witness ==
    /\ restartCountdown = MaxLead - 1 /\ MaxLead > 1
    /\ bePending.active /\ restartReply = NoReply /\ cancelReply = NoReply

====
